---- MODULE Spec2Model ----
(***************************************************************************)
(* A state-machine model of the qjlxg/lic discovery pipeline:              *)
(*   - tvbox_search.py   : search -> dedup -> fetch -> validate -> save     *)
(*   - tvbox_merger.py   : the memoized reachability checker is_valid_url  *)
(*   - search_github_urls.py : the semaphore-bounded validation stage      *)
(* Strings that the code slices are modelled as sequences of tokens        *)
(* (a URL is the sequence of its "/"-separated segments).                  *)
(***************************************************************************)
EXTENDS Integers, Sequences, FiniteSets, TLC

(***************************************************************************)
(* Bounds of the model (not program constants).                            *)
(***************************************************************************)
MaxRuns == 2
MaxTicks == 1
MaxBatch == 3
MaxPermits == 2
MaxCalls == 3
MaxIoFailures == 1
MaxItems == 2
MaxFaults == 3
MaxSearchPages == 2
MaxRecords == 3

(***************************************************************************)
(* Program constants.                                                      *)
(***************************************************************************)
PER_PAGE == 100
DELAY_BETWEEN_QUERIES == 20
FETCH_RETRIES == 3
EXPIRY_DAYS == 30
MAX_PAGES_MANY == 5
MAX_PAGES_FEW == 10
SEARCH_RETRIES == 3
FORBIDDEN_WAIT == 60
RETRY_AFTER_DEFAULT == 60
RATE_LIMIT_THRESHOLD == 3
RESET_MARGIN == 5
FORBIDDEN_FALLBACK == 60
KEYWORD_WAIT == 48

(***************************************************************************)
(* Generic helpers.                                                        *)
(***************************************************************************)
Max(a, b) == IF a >= b THEN a ELSE b

Min(a, b) == IF a <= b THEN a ELSE b

Range(s) == {s[k] : k \in 1..Len(s)}

Last(s) == s[Len(s)]

SeqsUpTo(S, n) == UNION {[1..k -> S] : k \in 0..n}

RECURSIVE SumSeq(_)
SumSeq(s) == IF s = <<>> THEN 0 ELSE Head(s) + SumSeq(Tail(s))

\* what an HTTP request ends with: a response status, or an exception
Status(code) == [kind |-> "status", code |-> code]

Raised(kind) == [kind |-> kind, code |-> 0]

(***************************************************************************)
(* Payloads.  A fetched body is a text; the model keeps what json.loads    *)
(* makes of it: kind "garbage" (not JSON), "nonobject" (JSON, not a dict)  *)
(* or "object" with the members 'sites', 'lives' and 'spider'.             *)
(*   member t = "absent" | "other" (wrong type) | "list" / "str"           *)
(*   list entries: "nondict", "dict_key", "dict_api", "dict_url",          *)
(*                 "dict_channels"                                         *)
(***************************************************************************)
Absent == [t |-> "absent", items |-> <<>>, s |-> ""]

Other == [t |-> "other", items |-> <<>>, s |-> ""]

ListOf(items) == [t |-> "list", items |-> items, s |-> ""]

Str(s) == [t |-> "str", items |-> <<>>, s |-> s]

Obj(id, sites, lives, spider) ==
    [kind |-> "object", id |-> id, sites |-> sites, lives |-> lives, spider |-> spider]

Garbage == [kind |-> "garbage", id |-> "g", sites |-> Absent, lives |-> Absent, spider |-> Absent]

NonObject == [kind |-> "nonobject", id |-> "a", sites |-> Absent, lives |-> Absent, spider |-> Absent]

\* a text nested deeper than the interpreter's recursion limit ('[' * 100000)
TooDeep == [kind |-> "toodeep", id |-> "d", sites |-> Absent, lives |-> Absent, spider |-> Absent]

\* a text with an integer literal of more digits than int() converts
\* ('{"sites": ' + '1' * 5000 + '}')
HugeInt == [kind |-> "hugeint", id |-> "h", sites |-> Absent, lives |-> Absent, spider |-> Absent]

\* the result None of fetch_url
NoBody == [kind |-> "none", id |-> "", sites |-> Absent, lives |-> Absent, spider |-> Absent]

\* str.strip() of the spider strings of the model is empty
IsBlank(s) == s \in {"", " "}

\* only the presence and the type of the three members is tested
validate_members_only(b) ==
    /\ b.kind = "object"
    /\ \/ b.sites.t = "list"
       \/ b.lives.t = "list"
       \/ (b.spider.t = "str" /\ ~IsBlank(b.spider.s))

\* json.loads(json_str) (line 42) raises an exception that the handler
\* 'except json.JSONDecodeError' (line 63) does not catch: RecursionError from
\* the scanner, ValueError from the conversion of the integer literal
LoadsRaisesOther(b) == b.kind \in {"toodeep", "hugeint"}

\* validate_tvbox_interface(json_str), where it returns
validate_tvbox_interface(b) ==
    IF b.kind = "garbage" THEN FALSE            \* json.JSONDecodeError
    ELSE IF b.kind # "object" THEN FALSE        \* not isinstance(data, dict)
    ELSE
      LET has_sites == b.sites.t = "list"
          has_lives == b.lives.t = "list"
          has_spider == b.spider.t = "str" /\ ~IsBlank(b.spider.s)
      IN  IF ~(has_sites \/ has_lives \/ has_spider) THEN FALSE
          ELSE IF has_sites /\ \E k \in 1..Len(b.sites.items) :
                      b.sites.items[k] \in {"dict_api", "dict_url"} THEN TRUE
          ELSE IF has_lives /\ \E k \in 1..Len(b.lives.items) :
                      b.lives.items[k] = "dict_channels" THEN TRUE
          ELSE IF has_spider THEN TRUE
          ELSE FALSE

\* content.encode('utf-8'): the bytes of a text, and what reading them back gives
EncodeUtf8(b) == [bytes |-> b]

\* hashlib.sha256(bytes).hexdigest(): injective on the payloads of the model
Sha256(bytes) == [sha |-> bytes.bytes.kind, of |-> bytes.bytes.id]

\* content_hash of a fetched body (line 240)
ContentHash(b) == Sha256(EncodeUtf8(b))

(***************************************************************************)
(* URLs.  An html_url is the sequence url.split("/").                      *)
(***************************************************************************)
Html(user, repo, rest) == <<"https:", "", "github.com", user, repo>> \o rest

H1 == Html("alice", "tv", <<"blob", "main", "config.json">>)

H2 == Html("bob", "box", <<"blob", "main", "config.json">>)

H3 == Html("bob", "box", <<"blob", "main", "tv.json">>)

\* a second "/blob/" in the path: its raw URL is that of H1
H4 == Html("alice", "tv", <<"blob", "main", "blob", "config.json">>)

\* str.replace("github.com", "raw.githubusercontent.com"), on segments
ReplaceHost(u) ==
    [k \in 1..Len(u) |-> IF u[k] = "github.com" THEN "raw.githubusercontent.com" ELSE u[k]]

\* str.replace("/blob/", "/"): non-overlapping matches from the left; a match
\* consumes the "/" that follows it, so the segment after a removed one stays
RECURSIVE DropBlob(_, _, _)
DropBlob(u, k, prevDropped) ==
    IF k > Len(u) THEN <<>>
    ELSE IF k > 1 /\ k < Len(u) /\ u[k] = "blob" /\ ~prevDropped
         THEN DropBlob(u, k + 1, TRUE)
         ELSE <<u[k]>> \o DropBlob(u, k + 1, FALSE)

\* raw_url of an item (line 223)
RawUrl(html_url) == DropBlob(ReplaceHost(html_url), 1, FALSE)

\* os.path.splitext(file_name)[0] on the file names of the model
SplitextBase(file_name) ==
    CASE file_name = "config.json" -> "config"
      [] file_name = "tv.json" -> "tv"
      [] OTHER -> file_name

\* the name save_valid_file builds (lines 84-87): f"{base_name}_{timestamp}.json"
NewFileName(file_name, timestamp) ==
    [base |-> SplitextBase(file_name), ts |-> timestamp, ext |-> ".json"]

(***************************************************************************)
(* Queries.  A query string is kept as its format and its argument, so     *)
(* that a mined query equals a baseline query exactly when the strings do. *)
(***************************************************************************)
QFilename(name) == [fmt |-> "filename:%s tvbox in:file", arg |-> name]

QPath(path) == [fmt |-> "extension:json path:%s", arg |-> path]

QInFile(word) == [fmt |-> "extension:json %s in:file language:json", arg |-> word]

QRepo(repo) == [fmt |-> "extension:json repo:%s", arg |-> repo]

\* the baseline list (lines 277-288)
BaselineQueries ==
    << QFilename("config.json"), QFilename("tv.json"), QFilename("interface.json"),
       QPath("tvbox"), QPath("config"),
       QInFile("sites"), QInFile("lives"), QInFile("spider"), QInFile("api"),
       QInFile("channels") >>

Q1 == BaselineQueries[1]

Q4 == BaselineQueries[4]

(***************************************************************************)
(* The search cache (search_cache.json): an ordered mapping, kept as the   *)
(* sequence of its records.  last_modified is kept as its form and its age *)
(* in days at load time: "naive" (no offset), "aware" (a 'Z' or an offset),*)
(* "malformed", "missing".                                                 *)
(***************************************************************************)
CacheRec(key, form, age, file_name, path, repo) ==
    [key |-> key, form |-> form, age |-> age, file_name |-> file_name,
     path |-> path, repo |-> repo]

\* datetime.fromisoformat(...) > expiry_date raises for a record (KeyError,
\* ValueError, or TypeError comparing an aware to the naive datetime.now())
LoadRaises(rec) == rec.form # "naive"

load_cache_unfiltered(file) ==
    IF \E k \in 1..Len(file) : LoadRaises(file[k]) THEN <<>> ELSE file

\* load_cache (lines 92-105)
load_cache(file) ==
    IF \E k \in 1..Len(file) : LoadRaises(file[k]) THEN <<>>
    ELSE SelectSeq(file, LAMBDA rec : rec.age < EXPIRY_DAYS)

\* data.get('file_name', '').split('_')[0] + '.json' (line 121)
StemJson(file_name) ==
    CASE file_name = "config_20240101.json" -> "config.json"
      [] file_name = "config_20240202.json" -> "config.json"
      [] file_name = "tv_20240101.json" -> "tv.json"
      [] file_name = "config.json" -> "config.json.json"      \* no '_' in the name
      [] file_name = "" -> ".json"

\* path.rsplit('/', 1)[0] if '/' in path else '' (line 127)
DirPath(path) ==
    CASE path = "tvbox/config.json" -> "tvbox"
      [] path = "tvbox/tv.json" -> "tvbox"
      [] path = "cfg/config.json" -> "cfg"
      [] OTHER -> ""

\* the keys of a counting dict, in insertion order
RECURSIVE FirstOccurrences(_)
FirstOccurrences(s) ==
    IF s = <<>> THEN <<>>
    ELSE LET front == FirstOccurrences(SubSeq(s, 1, Len(s) - 1))
         IN  IF Last(s) \in Range(front) THEN front ELSE Append(front, Last(s))

Count(s, x) == Cardinality({k \in 1..Len(s) : s[k] = x})

AllNames(s, threshold) == FirstOccurrences(s)

\* the names of s that occur at least `threshold` times, in insertion order
Frequent(s, threshold) ==
    SelectSeq(FirstOccurrences(s), LAMBDA x : Count(s, x) >= threshold)

MapSeq(s, Op(_)) == [k \in 1..Len(s) |-> Op(s[k])]

\* generate_dynamic_queries (lines 115-143)
generate_dynamic_queries(cache) ==
    LET names == SelectSeq(MapSeq(cache, LAMBDA d : StemJson(d.file_name)),
                           LAMBDA n : n # ".json")
        dirs == SelectSeq(MapSeq(cache, LAMBDA d : DirPath(d.path)),
                          LAMBDA x : x # "")
        repos == SelectSeq(MapSeq(cache, LAMBDA d : d.repo), LAMBDA r : r # "")
        dynamic_queries ==
            MapSeq(Frequent(names, 2), QFilename)
              \o MapSeq(Frequent(dirs, 2), QPath)
              \o MapSeq(Frequent(repos, 3), QRepo)
    IN  SubSeq(dynamic_queries, 1, Min(5, Len(dynamic_queries)))

(***************************************************************************)
(* Query statistics and the hit-rate order.                                *)
(***************************************************************************)
EmptyStats == [q \in {} |-> [valid |-> 0, total |-> 0]]

\* stats.get(query, {'valid': 0, 'total': 1}) (line 302)
StatsData(stats, query) ==
    IF query \in DOMAIN stats THEN stats[query] ELSE [valid |-> 0, total |-> 1]

\* hit_rate(a) < hit_rate(b), where hit_rate = valid / max(total, 1) (line 303)
RateLess(a, b) == a.valid * Max(b.total, 1) < b.valid * Max(a.total, 1)

UnsortedQueries(qs, stats) == qs

\* list.sort(key=query_priority, reverse=True): stable, descending (line 305)
RECURSIVE SortByHitRate(_, _)
SortByHitRate(qs, stats) ==
    IF qs = <<>> THEN <<>>
    ELSE LET front == SortByHitRate(SubSeq(qs, 1, Len(qs) - 1), stats)
             x == Last(qs)
             \* x goes after every element whose rate is not below its own
             pos == Cardinality({k \in 1..Len(front) :
                        ~RateLess(StatsData(stats, front[k]), StatsData(stats, x))})
         IN  SubSeq(front, 1, pos) \o <<x>> \o SubSeq(front, pos + 1, Len(front))

\* max_pages_per_query (lines 311-312)
MaxPagesPerQuery(nqueries, cpu_count) ==
    LET max_workers == Min(nqueries, cpu_count)
    IN  IF nqueries > max_workers THEN MAX_PAGES_MANY ELSE MAX_PAGES_FEW

(***************************************************************************)
(* The environment of a run: what the search API and the raw-content host  *)
(* answer.  Both are fixed for a behaviour (an unchanged remote corpus).   *)
(***************************************************************************)
BodyA == Obj("A", ListOf(<<"dict_key", "dict_api">>), Absent, Absent)

BodyB == Obj("B", Absent, Absent, Str("jar"))

\* {"sites": [{"key": "k"}]}: no entry with 'api' or 'url'
BodyC == Obj("C", ListOf(<<"dict_key">>), Absent, Absent)

R1 == RawUrl(H1)

R2 == RawUrl(H2)

R3 == RawUrl(H3)

RawUrls == {R1, R2, R3}

\* what the raw host serves for a URL: the body, after `fails` failing attempts
Served(body, fails) == [body |-> body, fails |-> fails]

\* three different bodies, the third not a TVBox interface
WebDistinct ==
    (R1 :> Served(BodyA, 0)) @@ (R2 :> Served(BodyB, 0)) @@ (R3 :> Served(BodyC, 0))

\* one body under three URLs
WebSameBody ==
    (R1 :> Served(BodyA, 0)) @@ (R2 :> Served(BodyA, 1)) @@ (R3 :> Served(BodyA, 0))

\* a URL that fails every attempt, one that fails twice, one that is not JSON
WebFailing ==
    (R1 :> Served(BodyB, 3)) @@ (R2 :> Served(BodyB, 2)) @@ (R3 :> Served(Garbage, 0))

Webs == {WebDistinct, WebSameBody, WebFailing}

\* one page of search results: n items whose html_urls are, in order of first
\* occurrence, `urls` (the other items repeat them), and the reported total
Page(n, urls, total) == [n |-> n, urls |-> urls, total |-> total]

\* an item of a search response that has no 'html_url' field
ItemNoUrl == <<"no html_url">>

\* total_count = 250, 100 items per page
Corpus250 ==
    (Q1 :> << Page(100, <<H1, H2>>, 250), Page(100, <<H3>>, 250), Page(50, <<H4>>, 250) >>)

\* two queries returning the same URL
CorpusShared ==
    (Q1 :> << Page(2, <<H1, H2>>, 2) >>) @@ (Q4 :> << Page(3, <<H2, H3, H4>>, 3) >>)

\* more pages than any page ceiling, then an empty page
CorpusLong ==
    (Q4 :> << Page(100, <<H3>>, 2000), Page(100, <<H3>>, 2000),
              Page(100, <<H1>>, 2000), Page(100, <<H3>>, 2000),
              Page(100, <<H3>>, 2000), Page(100, <<H3>>, 2000),
              Page(100, <<H3>>, 2000), Page(100, <<H3>>, 2000),
              Page(100, <<H3>>, 2000), Page(100, <<H3>>, 2000),
              Page(100, <<H2>>, 2000) >>)

\* a response whose second item lacks 'html_url'
CorpusNoUrl == (Q1 :> << Page(2, <<H3, ItemNoUrl>>, 2) >>)

Corpora == {Corpus250, CorpusShared, CorpusLong, CorpusNoUrl}

\* what the search API answers instead of a result: 403, 429 (without a
\* Retry-After header), or the request raises (connection error, or an error
\* status that raise_for_status turns into HTTPError)
ApiFaults == {Status(403), Status(429), Raised("RequestException")}

\* the faults the API answers to the first requests of the process
ApiScripts == SeqsUpTo(ApiFaults, MaxFaults)

CpuCounts == {2, 16}

\* os.environ.get("BOT"): None when the variable is unset (line 272)
NoToken == [set |-> FALSE, value |-> ""]

Tokens == {NoToken, [set |-> TRUE, value |-> ""], [set |-> TRUE, value |-> "ghp_token"]}

CacheFiles ==
    { <<>>,
      << CacheRec("k1", "naive", 3, "config_20240101.json", "tvbox/config.json", "alice/tv"),
         CacheRec("k2", "naive", 45, "tv_20240101.json", "tvbox/tv.json", "bob/box"),
         CacheRec("k3", "naive", 29, "config_20240202.json", "cfg/config.json", "alice/tv") >> }

StatsFiles ==
    { EmptyStats,
      (Q1 :> [valid |-> 3, total |-> 10]) @@ (Q4 :> [valid |-> 5, total |-> 10]) }

EmptyBox == [name \in {} |-> NoBody]

\* the artifact directory before the first run
Boxes == { EmptyBox, (NewFileName("config.json", 0) :> BodyA) }

(***************************************************************************)
(* State.                                                                  *)
(***************************************************************************)
VARIABLES
    \* environment
    token, cpu_count, corpus, web, api_script, now, ticks, io_failures,
    \* files
    box, cacheFile, statsFile,
    \* search_and_save_tvbox_interfaces
    run, pc, cache, stats, processed_urls, content_hashes, queries, max_pages, qi,
    \* process_query
    page, valid_files, total_files, downloaded_content_hashes, total_count,
    urls_to_process, downloaded_contents, ci, exit,
    \* history of the current run / query
    fetched, validated, saves, box0, requested, stats0, statsFile0, last_search, returned,
    \* the executor loop (lines 315-321)
    running,        \* the indexes of the queries whose process_query is executing
    executed,       \* the queries handed to process_query in this run, in order
    order0,         \* the list as queries.sort left it (line 305)
    finished_at     \* the clock when the last process_query returned

envVars == <<token, cpu_count, corpus, web, api_script, now, ticks, io_failures>>

fileVars == <<box, cacheFile, statsFile>>

runVars == <<run, pc, cache, stats, processed_urls, content_hashes, queries, max_pages, qi>>

queryVars == <<page, valid_files, total_files, downloaded_content_hashes, total_count,
               urls_to_process, downloaded_contents, ci, exit>>

histVars == <<fetched, validated, saves, box0, requested, stats0, statsFile0, last_search,
              returned>>

orchVars == <<running, executed, order0, finished_at>>

pipeVars == <<envVars, fileVars, runVars, queryVars, histVars, orchVars>>

(***************************************************************************)
(* Operations of tvbox_search.py.                                          *)
(***************************************************************************)
AlwaysMoreAttempts(attempt) == TRUE

\* attempt < retries - 1 (line 33): a failed attempt is followed by another one
MoreAttempts(attempt) == attempt < FETCH_RETRIES - 1

\* fetch_url (lines 24-37), from attempt number `attempt` on: the value
\* returned, the GET requests issued and the asyncio.sleep calls, in order.
\* The first web[url].fails attempts raise, the next one returns the body.
RECURSIVE FetchAttempts(_, _)
FetchAttempts(url, attempt) ==
    IF attempt >= FETCH_RETRIES                      \* range(retries) is exhausted
    THEN [body |-> NoBody, attempts |-> 0, sleeps |-> <<>>]
    ELSE IF attempt >= web[url].fails                \* return await response.text()
    THEN [body |-> web[url].body, attempts |-> 1, sleeps |-> <<>>]
    ELSE IF MoreAttempts(attempt)                    \* await asyncio.sleep(2 ** attempt)
    THEN LET next == FetchAttempts(url, attempt + 1)
         IN  [body |-> next.body, attempts |-> next.attempts + 1,
              sleeps |-> <<2 ^ attempt>> \o next.sleeps]
    ELSE [body |-> NoBody, attempts |-> 1, sleeps |-> <<>>]          \* return None

\* fetch_url(session, raw_url, headers) (line 230)
fetch_url(url) == FetchAttempts(url, 0).body

\* the time asyncio.gather(*tasks) takes to sleep: the tasks sleep concurrently
RECURSIVE GatherSleep(_)
GatherSleep(urls) ==
    IF urls = <<>> THEN 0
    ELSE Max(SumSeq(FetchAttempts(Head(urls), 0).sleeps), GatherSleep(Tail(urls)))

\* the items and the total_count of a successful search response
ApiPage(query, p) ==
    IF query \in DOMAIN corpus /\ p <= Len(corpus[query])
    THEN corpus[query][p]
    ELSE Page(0, <<>>, 0)

BudgetUnlimited(attempt) == TRUE

\* for attempt in range(retries) (lines 170-171)
BudgetLeft(attempt) == attempt < SEARCH_RETRIES

\* search_github (lines 163-201), from attempt number `attempt` on: the result,
\* the requests issued, the answers to them, the sleeps, and the faults the
\* API has left
RECURSIVE SearchAttempts(_, _, _, _)
SearchAttempts(query, p, script, attempt) ==
    IF ~BudgetLeft(attempt)
    THEN [result |-> Page(0, <<>>, 0), requests |-> 0, answers |-> <<>>, waits |-> <<>>,
          script |-> script, exhausted |-> TRUE]                         \* line 201
    ELSE LET answer == IF script = <<>> THEN Status(200) ELSE Head(script)
             rest == IF script = <<>> THEN <<>> ELSE Tail(script)
             retry(wait) ==                                              \* sleep, continue
                 LET next == SearchAttempts(query, p, rest, attempt + 1)
                 IN  [next EXCEPT !.requests = @ + 1, !.answers = <<answer>> \o @,
                                  !.waits = <<wait>> \o @]
         IN  IF answer = Status(429) THEN retry(RETRY_AFTER_DEFAULT)
             ELSE IF answer = Status(403) THEN retry(FORBIDDEN_WAIT * (attempt + 1))
             ELSE IF answer.kind # "status"                              \* RequestException
             THEN IF attempt < SEARCH_RETRIES - 1
                  THEN retry(2 ^ attempt)
                  ELSE [result |-> Page(0, <<>>, 0), requests |-> 1, answers |-> <<answer>>,
                        waits |-> <<>>, script |-> rest, exhausted |-> TRUE]  \* line 200
             ELSE [result |-> ApiPage(query, p), requests |-> 1, answers |-> <<answer>>,
                   waits |-> <<>>, script |-> rest, exhausted |-> FALSE]  \* line 193

\* search_github(query, github_token, page) when the API still has `script`
search_github(query, p, script) == SearchAttempts(query, p, script, 0)

\* no search_github call was made yet for the query
NoSearch == [requests |-> 0, answers |-> <<>>, waits |-> <<>>, exhausted |-> FALSE]

\* load_existing_content_hashes (lines 66-80)
load_existing_content_hashes(dir) ==
    { Sha256(EncodeUtf8(dir[name])) : name \in {f \in DOMAIN dir : f.ext = ".json"} }

\* raw_url in processed_urls (line 225)
IsProcessed(raw_url, processed) == raw_url \in processed

NoMarkProcessed(processed, raw_url) == processed

\* processed_urls.add(raw_url) (line 228)
MarkProcessed(processed, raw_url) == processed \cup {raw_url}

\* the item loop of a page (lines 222-231): the URLs to fetch, in order, and
\* the processed set after it
RECURSIVE ItemLoop(_, _)
ItemLoop(urls, processed) ==
    IF urls = <<>> THEN [todo |-> <<>>, processed |-> processed, raised |-> FALSE]
    ELSE IF Head(urls) = ItemNoUrl                           \* item["html_url"]: KeyError
    THEN [todo |-> <<>>, processed |-> processed, raised |-> TRUE]
    ELSE LET raw_url == RawUrl(Head(urls))
         IN  IF IsProcessed(raw_url, processed)
             THEN ItemLoop(Tail(urls), processed)
             ELSE LET rest == ItemLoop(Tail(urls), MarkProcessed(processed, raw_url))
                  IN  [todo |-> <<raw_url>> \o rest.todo, processed |-> rest.processed,
                       raised |-> rest.raised]

DedupHitInRunOnly(content_hash, persisted, in_run) == content_hash \in in_run

\* the two content-level guards (lines 242-248)
DedupHit(content_hash, persisted, in_run) ==
    content_hash \in persisted \/ content_hash \in in_run

NoAddContentHash(hashes, content_hash) == hashes

\* content_hashes.add(content_hash) (line 254)
AddContentHash(hashes, content_hash) == hashes \cup {content_hash}

SetStatsPerPageOnly(st, query, valid, total) == st

\* stats[query] = {'valid': valid_files, 'total': total_files} (line 267)
SetStats(st, query, valid, total) ==
    [q \in DOMAIN st \cup {query} |->
        IF q = query THEN [valid |-> valid, total |-> total] ELSE st[q]]

ItemsNotCounted(total, n) == total

\* total_files += len(items) (line 212)
AddItems(total, n) == total + n

NoCeiling(p, ceiling) == TRUE

\* while page <= max_pages (line 210)
WithinCeiling(p, ceiling) == p <= ceiling

PageDoneEarly(i, contents) == TRUE

\* the loop over downloaded_contents has handled every body (lines 235-258)
PageDone(i, contents) == i > Len(contents)

\* page * 100 >= total_count, evaluated after page += 1 (line 263)
ReachedEnd(next_page, total) == next_page * PER_PAGE >= total

query == queries[qi]

TokenNeverMissing(github_token) == FALSE

\* not github_token (line 273)
TokenMissing(github_token) == ~github_token.set \/ github_token.value = ""

WriteErrorRaises(next) == "crashed"

\* except Exception: logger.error(...) (lines 112-113, 160-161): the caller goes on
AfterWriteError(next) == next

ResultNotAwaited(worker) == worker \in {"sleep", "process"}

\* future.result() returns when process_query has returned (line 318)
ResultReady(worker) == worker = "sleep"

SleepSkipped(t, seconds) == t

\* time.sleep(seconds) returns
SleepUntil(t, seconds) == t + seconds

Resorted(qs, st) == SortByHitRate(qs, st)

\* for query in queries (line 316): the list object as it was sorted
IterateQueries(qs, st) == qs

PipeInit ==
    /\ token \in Tokens
    /\ cpu_count \in CpuCounts
    /\ corpus \in Corpora
    /\ web \in Webs
    /\ api_script \in ApiScripts
    /\ now = 1
    /\ ticks = 0
    /\ io_failures = 0
    /\ box \in Boxes
    /\ cacheFile \in CacheFiles
    /\ statsFile \in StatsFiles
    \* the page ceiling matters for the corpus with more than MAX_PAGES_MANY pages
    /\ cpu_count # 2 => corpus = CorpusLong
    \* the API faults are explored on one corpus and one set of files
    /\ api_script # <<>> =>
          /\ corpus = CorpusShared
          /\ web = WebDistinct
          /\ cpu_count = 2
          /\ box = EmptyBox
          /\ cacheFile = <<>>
          /\ statsFile = EmptyStats
    /\ run = 1
    /\ pc = "init"
    /\ cache = <<>>
    /\ stats = EmptyStats
    /\ processed_urls = {}
    /\ content_hashes = {}
    /\ queries = <<>>
    /\ max_pages = 0
    /\ qi = 0
    /\ page = 0
    /\ valid_files = 0
    /\ total_files = 0
    /\ downloaded_content_hashes = {}
    /\ total_count = 0
    /\ urls_to_process = <<>>
    /\ downloaded_contents = <<>>
    /\ ci = 0
    /\ exit = "none"
    /\ fetched = <<>>
    /\ validated = <<>>
    /\ saves = <<>>
    /\ box0 = EmptyBox
    /\ requested = <<>>
    /\ stats0 = EmptyStats
    /\ statsFile0 = EmptyStats
    /\ last_search = NoSearch
    /\ returned = <<>>
    /\ running = {}
    /\ executed = <<>>
    /\ order0 = <<>>
    /\ finished_at = 0

\* search_and_save_tvbox_interfaces up to the executor loop (lines 270-313)
StartRun ==
    /\ pc = "init"
    /\ IF TokenMissing(token)
       THEN /\ pc' = "exited"                       \* sys.exit(1)
            /\ UNCHANGED <<cache, stats, processed_urls, content_hashes, queries,
                           max_pages, qi, box0, executed, order0>>
       ELSE LET loaded == load_cache(cacheFile)
                all == BaselineQueries \o generate_dynamic_queries(loaded)
            IN  /\ cache' = loaded
                /\ stats' = statsFile               \* load_query_stats
                /\ processed_urls' = {}
                /\ content_hashes' = load_existing_content_hashes(box)
                /\ box0' = box
                /\ queries' = SortByHitRate(all, statsFile)
                /\ order0' = queries'
                /\ executed' = <<>>
                /\ max_pages' = MaxPagesPerQuery(Len(all), cpu_count)
                /\ qi' = 1
                /\ pc' = "begin_query"
    /\ fetched' = <<>>
    /\ validated' = <<>>
    /\ saves' = <<>>
    /\ UNCHANGED <<envVars, fileVars, run, queryVars, requested, stats0, statsFile0,
                   last_search, returned, running, finished_at>>

\* process_query, entry (lines 205-208)
BeginQuery ==
    /\ pc = "begin_query"
    /\ page' = 1
    /\ valid_files' = IF query \in DOMAIN stats THEN stats[query].valid ELSE 0
    /\ total_files' = IF query \in DOMAIN stats THEN stats[query].total ELSE 0
    /\ downloaded_content_hashes' = {}
    /\ total_count' = 0
    /\ urls_to_process' = <<>>
    /\ downloaded_contents' = <<>>
    /\ ci' = 0
    /\ exit' = "none"
    /\ requested' = <<>>
    /\ returned' = <<>>
    /\ last_search' = NoSearch
    /\ stats0' = stats
    /\ statsFile0' = statsFile
    /\ pc' = "loop"
    /\ running' = running \cup {qi}                \* executor.submit(asyncio.run, ...)
    /\ executed' = Append(executed, query)
    /\ UNCHANGED <<envVars, fileVars, run, cache, stats, processed_urls, content_hashes,
                   queries, max_pages, qi, fetched, validated, saves, box0, order0,
                   finished_at>>

\* one search_github call and the fetch of its candidates (lines 210-233)
SearchPage ==
    /\ pc = "loop"
    /\ WithinCeiling(page, max_pages)
    /\ LET call == search_github(query, page, api_script)
           r == call.result
           loop == ItemLoop(r.urls, processed_urls)
       IN  /\ api_script' = call.script
           /\ now' = now + SumSeq(call.waits)                 \* time.sleep
                     + (IF r.n = 0 \/ loop.raised THEN 0 ELSE GatherSleep(loop.todo))
           /\ last_search' = [requests |-> call.requests, answers |-> call.answers,
                              waits |-> call.waits, exhausted |-> call.exhausted]
           /\ total_files' = AddItems(total_files, r.n)
           /\ total_count' = r.total
           /\ requested' = Append(requested, page)
           /\ returned' = Append(returned, r.n)
           /\ IF r.n = 0
              THEN /\ pc' = "finish"
                   /\ exit' = "no_items"
                   /\ running' = running
                   /\ UNCHANGED <<processed_urls, urls_to_process, downloaded_contents,
                                  ci, fetched>>
              ELSE IF loop.raised
              THEN \* the KeyError leaves process_query, future.result() raises it
                   /\ pc' = "crashed"
                   /\ running' = running \ {qi}
                   /\ processed_urls' = loop.processed
                   /\ UNCHANGED <<urls_to_process, downloaded_contents, ci, fetched, exit>>
              ELSE /\ processed_urls' = loop.processed
                   /\ urls_to_process' = loop.todo
                   /\ downloaded_contents' = MapSeq(loop.todo, fetch_url)
                   /\ fetched' = fetched \o loop.todo
                   /\ ci' = 1
                   /\ pc' = "process"
                   /\ exit' = exit
                   /\ running' = running
    /\ UNCHANGED <<token, cpu_count, corpus, web, ticks, io_failures, fileVars, run, cache,
                   stats, content_hashes, queries,
                   max_pages, qi, page, valid_files, downloaded_content_hashes,
                   validated, saves, box0, stats0, statsFile0, executed, order0,
                   finished_at>>

\* the while condition fails (line 210)
LoopExit ==
    /\ pc = "loop"
    /\ ~WithinCeiling(page, max_pages)
    /\ pc' = "finish"
    /\ exit' = "max_pages"
    /\ UNCHANGED <<envVars, fileVars, run, cache, stats, processed_urls, content_hashes,
                   queries, max_pages, qi, page, valid_files, total_files,
                   downloaded_content_hashes, total_count, urls_to_process,
                   downloaded_contents, ci, histVars, orchVars>>

\* one iteration of the loop over downloaded_contents (lines 235-258)
ProcessContent ==
    /\ pc = "process"
    /\ ci <= Len(downloaded_contents)
    /\ ci' = ci + 1
    /\ LET content == downloaded_contents[ci]
           content_hash == ContentHash(content)
           file_name == Last(urls_to_process[ci])
           new_file_name == NewFileName(file_name, now)
           skip == /\ pc' = pc
                   /\ UNCHANGED <<box, content_hashes, downloaded_content_hashes,
                                  valid_files, saves, io_failures, running>>
       IN  IF content = NoBody
           THEN skip /\ validated' = validated
           ELSE IF DedupHit(content_hash, content_hashes, downloaded_content_hashes)
           THEN skip /\ validated' = validated
           ELSE /\ validated' = Append(validated, content)
                /\ IF validate_tvbox_interface(content)
                   THEN \/ \* save_valid_file: open(save_path, "w") replaces a file of that name
                           /\ box' = [name \in DOMAIN box \cup {new_file_name} |->
                                        IF name = new_file_name THEN content ELSE box[name]]
                           /\ saves' = Append(saves, [name |-> new_file_name,
                                                      content |-> content])
                           /\ content_hashes' = AddContentHash(content_hashes, content_hash)
                           /\ downloaded_content_hashes' =
                                  downloaded_content_hashes \cup {content_hash}
                           /\ valid_files' = valid_files + 1
                           /\ pc' = pc
                           /\ io_failures' = io_failures
                           /\ running' = running
                        \/ \* open() or write() raises: nothing catches it (lines 82-90, 253)
                           /\ io_failures < MaxIoFailures
                           /\ io_failures' = io_failures + 1
                           /\ pc' = "crashed"
                           /\ running' = running \ {qi}
                           /\ UNCHANGED <<box, content_hashes, downloaded_content_hashes,
                                          valid_files, saves>>
                   ELSE skip
    /\ UNCHANGED <<token, cpu_count, corpus, web, api_script, now, ticks, cacheFile,
                   statsFile, run, cache, stats, processed_urls,
                   queries, max_pages, qi, page, total_files, total_count, urls_to_process,
                   downloaded_contents, exit, fetched, box0, requested, stats0,
                   statsFile0, last_search, returned, executed, order0, finished_at>>

\* the end of a page (lines 260-265); save_cache may fail and only logs
EndPage ==
    /\ pc = "process"
    /\ PageDone(ci, downloaded_contents)
    /\ \E failed \in BOOLEAN :
          LET next == IF ReachedEnd(page + 1, total_count) THEN "finish" ELSE "loop"
          IN  /\ failed => io_failures < MaxIoFailures
              /\ io_failures' = IF failed THEN io_failures + 1 ELSE io_failures
              /\ cacheFile' = IF failed THEN cacheFile ELSE cache
              /\ pc' = IF failed THEN AfterWriteError(next) ELSE next
    /\ page' = page + 1
    /\ exit' = IF ReachedEnd(page + 1, total_count) THEN "reached_end" ELSE exit
    /\ UNCHANGED <<token, cpu_count, corpus, web, api_script, now, ticks, box, statsFile,
                   run, cache, stats, processed_urls, content_hashes, queries, max_pages,
                   qi, valid_files, total_files, downloaded_content_hashes, total_count,
                   urls_to_process, downloaded_contents, ci, histVars, orchVars>>

\* after the loop (lines 267-268); save_query_stats may fail and only logs
FinishQuery ==
    /\ pc = "finish"
    /\ stats' = SetStats(stats, query, valid_files, total_files)
    /\ \E failed \in BOOLEAN :
          /\ failed => io_failures < MaxIoFailures
          /\ io_failures' = IF failed THEN io_failures + 1 ELSE io_failures
          /\ statsFile' = IF failed THEN statsFile ELSE stats'
          /\ pc' = IF failed THEN AfterWriteError("sleep") ELSE "sleep"
    /\ running' = running \ {qi}                   \* process_query returns
    /\ finished_at' = now
    /\ UNCHANGED <<token, cpu_count, corpus, web, api_script, now, ticks, box, cacheFile,
                   run, cache, processed_urls, content_hashes, queries, max_pages, qi,
                   queryVars, histVars, executed, order0>>

\* future.result() returned; time.sleep(delay_between_queries) (lines 318-321)
Sleep ==
    /\ ResultReady(pc)
    /\ now' = SleepUntil(now, DELAY_BETWEEN_QUERIES)
    /\ queries' = IterateQueries(queries, stats)
    /\ qi' = qi + 1
    /\ pc' = IF qi + 1 > Len(queries) THEN "end_run" ELSE "begin_query"
    /\ UNCHANGED <<token, cpu_count, corpus, web, api_script, ticks, io_failures, fileVars,
                   run, cache, stats, processed_urls, content_hashes, max_pages, queryVars,
                   histVars, orchVars>>

\* the final save_query_stats(stats) (line 323)
EndRun ==
    /\ pc = "end_run"
    /\ \E failed \in BOOLEAN :
          /\ failed => io_failures < MaxIoFailures
          /\ io_failures' = IF failed THEN io_failures + 1 ELSE io_failures
          /\ statsFile' = IF failed THEN statsFile ELSE stats
          /\ pc' = IF failed THEN AfterWriteError("done") ELSE "done"
    /\ UNCHANGED <<token, cpu_count, corpus, web, api_script, now, ticks, box, cacheFile,
                   run, cache, stats, processed_urls, content_hashes, queries, max_pages,
                   qi, queryVars, histVars, orchVars>>

\* the script is started again, on the files the previous run left
Restart ==
    /\ pc = "done"
    /\ run < MaxRuns
    /\ run' = run + 1
    /\ pc' = "init"
    /\ UNCHANGED <<envVars, fileVars, cache, stats, processed_urls, content_hashes,
                   queries, max_pages, qi, queryVars, histVars, orchVars>>

\* the wall clock reaches the next second before a body of the page is handled
Tick ==
    /\ pc = "process"
    /\ ci <= Len(downloaded_contents)
    /\ ticks < MaxTicks
    /\ now' = now + 1
    /\ ticks' = ticks + 1
    /\ UNCHANGED <<token, cpu_count, corpus, web, api_script, io_failures, fileVars,
                   runVars, queryVars, histVars, orchVars>>

(***************************************************************************)
(* tvbox_merger.py: the memoized reachability checker.  A URL is the       *)
(* sequence of its tokens: scheme ("https://"), host, "/", path.           *)
(***************************************************************************)
MAX_CACHE_SIZE == 10000

EXCLUDED_DOMAINS == {"agit.ai", "gitcode.net", "cccimg.com"}

\* the proxies list of strip_proxy (lines 29-34), in order
Proxies ==
    << <<"https://", "ghproxy.com", "/">>,
       <<"https://", "ghp.ci", "/">>,
       <<"https://", "raw.gitmirror.com", "/">>,
       <<"https://", "github.3x25.com", "/">> >>

\* str.startswith(prefix)
StartsWith(url, prefix) ==
    Len(url) >= Len(prefix) /\ SubSeq(url, 1, Len(prefix)) = prefix

NoStripProxy(url) == url

\* strip_proxy (lines 25-42)
StripProxy(url) ==
    LET hits == {k \in 1..Len(Proxies) : StartsWith(url, Proxies[k])}
    IN  IF hits = {} THEN url
        ELSE LET proxy == Proxies[CHOOSE k \in hits : \A m \in hits : k <= m]
                 original_url == SubSeq(url, Len(proxy) + 1, Len(url))
             IN  IF StartsWith(original_url, <<"http://">>)
                    \/ StartsWith(original_url, <<"https://">>)
                 THEN original_url
                 ELSE <<"https://">> \o original_url

\* urlparse(url).scheme
Scheme(url) ==
    IF url # <<>> /\ url[1] \in {"http://", "https://"} THEN url[1] ELSE ""

\* urlparse(url).netloc
Netloc(url) ==
    IF Scheme(url) # "" /\ Len(url) >= 2 /\ url[2] # "/" THEN url[2] ELSE ""

\* domain in EXCLUDED_DOMAINS (line 56)
IsExcluded(domain) == domain \in EXCLUDED_DOMAINS

\* https://ghproxy.com/https://raw.example.com/x.m3u8
MU1 == <<"https://", "ghproxy.com", "/", "https://", "raw.example.com", "/", "x.m3u8">>

\* https://raw.example.com/x.m3u8
MU2 == <<"https://", "raw.example.com", "/", "x.m3u8">>

\* https://ghp.ci/agit.ai/repo/api.json
MU3 == <<"https://", "ghp.ci", "/", "agit.ai", "/", "repo/api.json">>

\* https://gitcode.net/u/api.json
MU4 == <<"https://", "gitcode.net", "/", "u/api.json">>

\* a spider class name such as csp_XBPQ: no scheme
MU5 == <<"csp_XBPQ">>

\* https://ghproxy.com/https://ghp.ci/https://raw.example.com/x.m3u8
MU6 == <<"https://", "ghproxy.com", "/", "https://", "ghp.ci", "/",
         "https://", "raw.example.com", "/", "x.m3u8">>

\* http://site.example/api
MU7 == <<"http://", "site.example", "/", "api">>

MergerUrls == {MU1, MU2, MU3, MU4, MU5, MU6, MU7}

\* what a HEAD probe ends with
ProbeOutcomes ==
    { Status(200), Status(204), Status(301), Status(404),
      Raised("ClientError"), Raised("TimeoutError"), Raised("Exception") }

\* is_valid for a probe outcome (lines 72-89)
ProbeValid(outcome) == outcome.kind = "status" /\ outcome.code = 200

NoCall == [raw |-> <<>>, target |-> <<>>, probed |-> FALSE, hit |-> FALSE,
           outcome |-> Raised("none"), result |-> FALSE]

VARIABLES
    URL_CACHE,      \* the entries for the URLs of the model: target -> bool
    cache_other,    \* the number of entries for other URLs
    inflight,       \* the calls awaiting their HEAD response: a set of [id, raw, target]
    started,        \* the number of calls of is_valid_url made so far
    last            \* the call that returned last

mergerVars == <<URL_CACHE, cache_other, inflight, started, last>>

EmptyCache == [u \in {} |-> FALSE]

\* len(URL_CACHE)
CacheLen == cache_other + Cardinality(DOMAIN URL_CACHE)

MergerIdle ==
    /\ URL_CACHE = EmptyCache
    /\ cache_other = 0
    /\ inflight = {}
    /\ started = 0
    /\ last = NoCall

MergerInit ==
    /\ URL_CACHE = EmptyCache
    /\ cache_other \in {0, MAX_CACHE_SIZE, MAX_CACHE_SIZE + 1}
    /\ inflight = {}
    /\ started = 0
    /\ last = NoCall

\* is_valid_url up to its first suspension (lines 48-72): it returns at once,
\* or issues the HEAD request and waits
CallIsValidUrl(url) ==
    /\ started < MaxCalls
    /\ started' = started + 1
    /\ LET url_to_check == StripProxy(url)
           domain == Netloc(url_to_check)
           ret(result, hit) ==
               [raw |-> url, target |-> url_to_check, probed |-> FALSE, hit |-> hit,
                outcome |-> Raised("none"), result |-> result]
       IN  IF Scheme(url_to_check) = "" \/ domain = ""
           THEN /\ last' = ret(FALSE, FALSE)
                /\ UNCHANGED <<URL_CACHE, cache_other, inflight>>
           ELSE IF IsExcluded(domain)
           THEN /\ last' = ret(FALSE, FALSE)
                /\ UNCHANGED <<URL_CACHE, cache_other, inflight>>
           ELSE IF url_to_check \in DOMAIN URL_CACHE
           THEN /\ last' = ret(URL_CACHE[url_to_check], TRUE)
                /\ UNCHANGED <<URL_CACHE, cache_other, inflight>>
           ELSE /\ IF CacheLen > MAX_CACHE_SIZE
                   THEN URL_CACHE' = EmptyCache /\ cache_other' = 0
                   ELSE UNCHANGED <<URL_CACHE, cache_other>>
                /\ inflight' = inflight \cup
                       {[id |-> started + 1, raw |-> url, target |-> url_to_check]}
                /\ last' = last

\* the HEAD request of a waiting call ends (lines 73-89)
ProbeEnds(call, outcome) ==
    /\ call \in inflight
    /\ inflight' = inflight \ {call}
    /\ URL_CACHE' = [u \in DOMAIN URL_CACHE \cup {call.target} |->
                        IF u = call.target THEN ProbeValid(outcome) ELSE URL_CACHE[u]]
    /\ last' = [raw |-> call.raw, target |-> call.target, probed |-> TRUE, hit |-> FALSE,
                outcome |-> outcome, result |-> ProbeValid(outcome)]
    /\ UNCHANGED <<cache_other, started>>

\* a new batch: the checker is a module global and keeps its cache
NewBatch ==
    /\ started = MaxCalls
    /\ inflight = {}
    /\ last # NoCall
    /\ started' = 0
    /\ last' = NoCall
    /\ UNCHANGED <<URL_CACHE, cache_other, inflight>>

(***************************************************************************)
(* search_github_urls.py: the validation stage of                          *)
(* auto_discover_github_urls_async (lines 297-338).                        *)
(***************************************************************************)
DiscoveredUrls ==
    { "https://raw.githubusercontent.com/a/iptv/main/1.m3u8",
      "https://raw.githubusercontent.com/a/iptv/main/2.m3u8",
      "https://raw.githubusercontent.com/b/tv/main/3.m3u8",
      "https://raw.githubusercontent.com/b/tv/main/4.m3u8" }

GetOutcomes ==
    { Status(200), Status(301), Status(404),
      Raised("ClientError"), Raised("TimeoutError"), Raised("Exception") }

\* no GET has ended yet
NoOutcome == Raised("none")

AnyStatusValid(outcome) == outcome.kind = "status"

\* check_url_validity_async (lines 133-155): the URL, or None
UrlIsValid(outcome) ==
    outcome.kind = "status" /\ outcome.code >= 200 /\ outcome.code < 400

VARIABLES
    urls_file,              \* config/urls.txt, as the set of its lines
    existing_urls,          \* the file's lines and the backup lists' lines
    newly_discovered_urls,  \* the batch to validate
    max_workers,            \* CONFIG['network']['channel_check_workers']
    semaphore,              \* the value of asyncio.Semaphore(max_workers)
    task,                   \* limited_check(url): "waiting", "probing", "done"
    probes,                 \* url -> number of GET requests issued for it
    validated_urls,         \* the results that were not None
    apc,                    \* "off", "validate", "done"
    last_outcome            \* how the GET that ended last ended

asyncVars == <<urls_file, existing_urls, newly_discovered_urls, max_workers, semaphore,
               task, probes, validated_urls, apc, last_outcome>>

AsyncIdle ==
    /\ urls_file = {}
    /\ existing_urls = {}
    /\ newly_discovered_urls = {}
    /\ max_workers = 1
    /\ semaphore = 1
    /\ task = [u \in {} |-> "done"]
    /\ probes = [u \in {} |-> 0]
    /\ validated_urls = {}
    /\ apc = "off"
    /\ last_outcome = NoOutcome

\* the state at line 298, with the tasks of line 318 created
AsyncInit ==
    /\ urls_file = {"http://old.example/live.m3u8"}
    /\ existing_urls \in {urls_file, urls_file \cup {"http://backup.example/a.m3u8"}}
    /\ newly_discovered_urls \in
           {b \in SUBSET DiscoveredUrls : Cardinality(b) <= MaxBatch}
    /\ max_workers \in 1..MaxPermits
    /\ semaphore = max_workers
    /\ task = [u \in newly_discovered_urls |-> "waiting"]
    /\ probes = [u \in newly_discovered_urls |-> 0]
    /\ validated_urls = {}
    /\ apc = "validate"
    /\ last_outcome = NoOutcome

AcquireUnlimited(value) == TRUE

\* Semaphore.acquire does not block (async with semaphore, line 315)
CanAcquire(value) == value > 0

\* limited_check(url) enters the semaphore and issues its GET (lines 314-316)
StartProbe(url) ==
    /\ apc = "validate"
    /\ url \in newly_discovered_urls
    /\ task[url] = "waiting"
    /\ CanAcquire(semaphore)
    /\ semaphore' = semaphore - 1
    /\ task' = [task EXCEPT ![url] = "probing"]
    /\ probes' = [probes EXCEPT ![url] = @ + 1]
    /\ UNCHANGED <<urls_file, existing_urls, newly_discovered_urls, max_workers,
                   validated_urls, apc, last_outcome>>

\* the GET ends, the semaphore is released, the main loop takes the result
\* (lines 143-155, 315-316, 321-324)
EndProbe(url, outcome) ==
    /\ apc = "validate"
    /\ url \in newly_discovered_urls
    /\ task[url] = "probing"
    /\ semaphore' = semaphore + 1
    /\ task' = [task EXCEPT ![url] = "done"]
    /\ validated_urls' = IF UrlIsValid(outcome) THEN validated_urls \cup {url}
                         ELSE validated_urls
    /\ last_outcome' = outcome
    /\ UNCHANGED <<urls_file, existing_urls, newly_discovered_urls, max_workers, probes, apc>>

\* after the batch (lines 326-338); write_array_to_txt_local may fail and only logs
FinishValidation ==
    /\ apc = "validate"
    /\ \A u \in newly_discovered_urls : task[u] = "done"
    /\ apc' = "done"
    /\ IF newly_discovered_urls # {} /\ validated_urls # {}
       THEN urls_file' \in {existing_urls \cup validated_urls, urls_file}
       ELSE urls_file' = urls_file
    /\ UNCHANGED <<existing_urls, newly_discovered_urls, max_workers, semaphore, task,
                   probes, validated_urls, last_outcome>>

(***************************************************************************)
(* search_github_urls.py: the keyword search loop of                       *)
(* auto_discover_github_urls_async (lines 216-295).                        *)
(***************************************************************************)
\* CONFIG['search_keywords']
keywords_list == <<"iptv m3u8", "live tv m3u">>

\* a response header: absent, an integer, or text that int() rejects.  The
\* value of X-RateLimit-Reset is kept as its distance from time.time().
HeaderAbsent == [h |-> "absent", v |-> 0]

HeaderInt(v) == [h |-> "int", v |-> v]

HeaderMalformed == [h |-> "malformed", v |-> 0]

\* int(response.headers.get('X-RateLimit-Remaining', 0)) (line 242)
Remaining(header) == IF header.h = "absent" THEN 0 ELSE header.v

\* rate_limit_reset - time.time() (lines 243, 247, 278-279); an absent header
\* reads as 0, which lies in the past
ResetAhead(header) == IF header.h = "absent" THEN -1 ELSE header.v

\* html_url of the items of the model
KwGoodItem == "https://github.com/a/iptv/blob/main/1.m3u8"

KwOtherItem == "https://github.com/b/tv/blob/main/3.m3u8"

KwTextItem == "https://github.com/b/tv/blob/main/list.txt"

KwRepoItem == "https://github.com/b/tv"

\* an item whose raw URL matches a pattern of url_pre_screening.invalid_url_patterns
KwAdsItem == "https://github.com/c/ads/blob/main/5.m3u8"

\* the regular expression of line 259 matches the html_url
MatchesBlob(html_url) == html_url \in {KwGoodItem, KwOtherItem, KwTextItem, KwAdsItem}

\* raw_url of line 264
KwRawUrl(html_url) ==
    CASE html_url = KwGoodItem -> "https://raw.githubusercontent.com/a/iptv/main/1.m3u8"
      [] html_url = KwOtherItem -> "https://raw.githubusercontent.com/b/tv/main/3.m3u8"
      [] html_url = KwTextItem -> "https://raw.githubusercontent.com/b/tv/main/list.txt"
      [] html_url = KwAdsItem -> "https://raw.githubusercontent.com/c/ads/main/5.m3u8"
      [] OTHER -> html_url

\* pre_screen_url (lines 158-183), with invalid_url_patterns = ['/ads/']
pre_screen_url(raw_url, existing, discovered) ==
    /\ raw_url \in { "https://raw.githubusercontent.com/a/iptv/main/1.m3u8",
                     "https://raw.githubusercontent.com/b/tv/main/3.m3u8",
                     "https://raw.githubusercontent.com/c/ads/main/5.m3u8" }  \* \.m3u8$
    /\ raw_url # "https://raw.githubusercontent.com/c/ads/main/5.m3u8"       \* /ads/
    /\ raw_url \notin existing
    /\ raw_url \notin discovered

\* page_discovered_urls of a response (lines 256-268)
PageDiscovered(items, existing, discovered) ==
    { KwRawUrl(items[k]) : k \in {m \in 1..Len(items) :
          /\ MatchesBlob(items[m])
          /\ pre_screen_url(KwRawUrl(items[m]), existing, discovered)} }

KwItemLists ==
    { <<>>, <<KwGoodItem>>, <<KwGoodItem, KwTextItem, KwRepoItem, KwAdsItem, KwOtherItem>> }

\* what a search request ends with
KwOk(remaining, reset, items) ==
    [kind |-> "status", code |-> 200, remaining |-> remaining, reset |-> reset,
     items |-> items]

KwHttpError(code, reset) ==
    [kind |-> "status", code |-> code, remaining |-> HeaderAbsent, reset |-> reset,
     items |-> <<>>]

KwRaised(kind) ==
    [kind |-> kind, code |-> 0, remaining |-> HeaderAbsent, reset |-> HeaderAbsent,
     items |-> <<>>]

KwNoAnswer == KwRaised("none")

KwAnswers ==
    { KwOk(rem, reset, items) :
        rem \in {HeaderAbsent, HeaderInt(3), HeaderInt(4), HeaderMalformed},
        reset \in {HeaderAbsent, HeaderInt(-10), HeaderInt(30)},
        items \in KwItemLists }
    \cup { KwHttpError(403, reset) :
             reset \in {HeaderAbsent, HeaderInt(-10), HeaderInt(30), HeaderMalformed} }
    \cup { KwHttpError(422, HeaderAbsent), KwRaised("RequestException"),
           KwRaised("JSONDecodeError") }

VARIABLES
    kw_pc,          \* "off", "request", "sleep", "done"
    kw_i,           \* the index of the keyword in keywords_list, from 1
    kw_page,        \* page
    wait_seconds,   \* the argument of the time.sleep that is due
    kw_last,        \* the answer to the last request for the current keyword
    kw_slept        \* the seconds slept since that answer

kwVars == <<kw_pc, kw_i, kw_page, wait_seconds, kw_last, kw_slept>>

KwIdle ==
    /\ kw_pc = "off"
    /\ kw_i = 0
    /\ kw_page = 0
    /\ wait_seconds = 0
    /\ kw_last = KwNoAnswer
    /\ kw_slept = 0

\* line 216, first keyword: no sleep before it
KwInit ==
    /\ kw_pc = "request"
    /\ kw_i = 1
    /\ kw_page = 1
    /\ wait_seconds = 0
    /\ kw_last = KwNoAnswer
    /\ kw_slept = 0

QuotaWaitNoMargin(ahead) == Max(0, ahead)

\* wait_seconds = max(0, rate_limit_reset - time.time()) + 5 (lines 247, 279)
QuotaWait(ahead) == Max(0, ahead) + RESET_MARGIN

\* rate_limit_remaining <= rate_limit_threshold (line 246)
QuotaLow(remaining) == remaining <= RATE_LIMIT_THRESHOLD

\* break (lines 254, 289, 292, 295) or the end of the while loop: the next
\* keyword after time.sleep(wait_time), or the end of the for loop
KwBreak ==
    /\ kw_last' = KwNoAnswer
    /\ kw_slept' = 0
    /\ IF kw_i < Len(keywords_list)
       THEN /\ kw_i' = kw_i + 1
            /\ kw_page' = 1
            /\ wait_seconds' = KEYWORD_WAIT
            /\ kw_pc' = "sleep"
       ELSE /\ kw_pc' = "done"
            /\ UNCHANGED <<kw_i, kw_page, wait_seconds>>

\* continue after time.sleep(seconds): the same page is requested again
KwSleepAndRetry(answer, seconds) ==
    /\ kw_last' = answer
    /\ kw_slept' = 0
    /\ wait_seconds' = seconds
    /\ kw_pc' = "sleep"
    /\ UNCHANGED <<kw_i, kw_page>>

\* one iteration of the while loop up to its sleep (lines 223-295)
KwRequest(answer) ==
    /\ kw_pc = "request"
    /\ kw_page <= MaxSearchPages
    /\ IF answer.kind = "status" /\ answer.code = 200
       THEN IF answer.remaining.h = "malformed" \/ answer.reset.h = "malformed"
            THEN KwBreak /\ UNCHANGED newly_discovered_urls      \* ValueError, line 293
            ELSE IF QuotaLow(Remaining(answer.remaining))
            THEN /\ KwSleepAndRetry(answer, QuotaWait(ResetAhead(answer.reset)))
                 /\ UNCHANGED newly_discovered_urls
            ELSE IF answer.items = <<>>
            THEN KwBreak /\ UNCHANGED newly_discovered_urls      \* line 254
            ELSE /\ newly_discovered_urls' = newly_discovered_urls \cup
                       PageDiscovered(answer.items, existing_urls, newly_discovered_urls)
                 /\ kw_page' = kw_page + 1
                 /\ kw_last' = answer
                 /\ kw_slept' = 0
                 /\ UNCHANGED <<kw_pc, kw_i, wait_seconds>>
       ELSE IF answer.kind = "status" /\ answer.code = 403
       THEN /\ IF answer.reset.h = "malformed"
               THEN KwSleepAndRetry(answer, FORBIDDEN_FALLBACK)  \* lines 283-286
               ELSE KwSleepAndRetry(answer, QuotaWait(ResetAhead(answer.reset)))
            /\ UNCHANGED newly_discovered_urls
       ELSE KwBreak /\ UNCHANGED newly_discovered_urls           \* lines 287-295
    /\ UNCHANGED <<urls_file, existing_urls, max_workers, semaphore, task, probes,
                   validated_urls, apc, last_outcome>>

\* the while condition fails (line 223)
KwPagesDone ==
    /\ kw_pc = "request"
    /\ kw_page > MaxSearchPages
    /\ KwBreak
    /\ UNCHANGED asyncVars

\* time.sleep returns (lines 220, 249, 281, 285)
KwSleep ==
    /\ kw_pc = "sleep"
    /\ kw_slept' = kw_slept + wait_seconds
    /\ wait_seconds' = 0
    /\ kw_pc' = "request"
    /\ UNCHANGED <<kw_i, kw_page, kw_last>>
    /\ UNCHANGED asyncVars

\* config/urls.txt before the run, as the set of its lines
UrlFiles ==
    { {"http://old.example/live.m3u8"},
      {"http://old.example/live.m3u8", "https://raw.githubusercontent.com/a/iptv/main/1.m3u8"} }

\* the lines of the lists of CONFIG['backup_urls'] (lines 195-202)
BackupLines == { {}, {"http://backup.example/a.m3u8"} }

\* auto_discover_github_urls_async up to the keyword loop (lines 188-216)
DiscoverInit ==
    /\ KwInit
    /\ urls_file \in UrlFiles
    /\ existing_urls \in {urls_file \cup lines : lines \in BackupLines}
    /\ newly_discovered_urls = {}
    /\ max_workers \in 1..MaxPermits
    /\ semaphore = max_workers
    /\ task = [u \in {} |-> "done"]
    /\ probes = [u \in {} |-> 0]
    /\ validated_urls = {}
    /\ apc = "off"
    /\ last_outcome = NoOutcome

\* after the keyword loop: the tasks of the validation stage are created, or
\* nothing was discovered and the function returns (lines 298-318, 337-338)
BeginValidation ==
    /\ kw_pc = "done"
    /\ apc = "off"
    /\ IF newly_discovered_urls = {}
       THEN /\ apc' = "done"
            /\ UNCHANGED <<task, probes, semaphore>>
       ELSE /\ apc' = "validate"
            /\ task' = [u \in newly_discovered_urls |-> "waiting"]
            /\ probes' = [u \in newly_discovered_urls |-> 0]
            /\ semaphore' = max_workers
    /\ UNCHANGED <<urls_file, existing_urls, newly_discovered_urls, max_workers,
                   validated_urls, last_outcome, kwVars>>

(***************************************************************************)
(* Direct calls of the pure functions of tvbox_search.py, on inputs drawn   *)
(* from bounded sets.                                                      *)
(***************************************************************************)
\* what an entry of a 'sites' or 'lives' list can be
Entries == {"nondict", "dict_key", "dict_api", "dict_url", "dict_channels"}

\* what json.loads gives for the member 'sites' or 'lives'
ListMembers == {Absent, Other} \cup {ListOf(s) : s \in SeqsUpTo(Entries, MaxItems)}

\* what json.loads gives for the member 'spider'
SpiderMembers == {Absent, Other, Str(""), Str(" "), Str("jar")}

Payloads ==
    {Garbage, NonObject, TooDeep, HugeInt} \cup
    {Obj("x", s, l, sp) : s \in ListMembers, l \in ListMembers, sp \in SpiderMembers}

\* the list that is sorted: the baseline list extended by the mined queries
QueryLists == {BaselineQueries \o generate_dynamic_queries(load_cache(f)) : f \in CacheFiles}

StatsRecords ==
    { [valid |-> 0, total |-> 0], [valid |-> 3, total |-> 10], [valid |-> 5, total |-> 10],
      [valid |-> 5, total |-> 20], [valid |-> 1, total |-> 2] }

StatsKeys == {BaselineQueries[1], BaselineQueries[4], BaselineQueries[6], BaselineQueries[10]}

\* what load_query_stats can return
StatsTables == UNION {[K -> StatsRecords] : K \in SUBSET StatsKeys}

\* the values of a cache: records that share a name, a directory or a
\* repository, a name without '_', and a record without the three fields
MinedRecords ==
    { CacheRec("k", "naive", 1, "config_20240101.json", "tvbox/config.json", "alice/tv"),
      CacheRec("k", "naive", 1, "config_20240202.json", "cfg/config.json", "alice/tv"),
      CacheRec("k", "naive", 1, "tv_20240101.json", "tvbox/tv.json", "bob/box"),
      CacheRec("k", "naive", 1, "tv_20240101.json", "cfg/config.json", "bob/box"),
      CacheRec("k", "naive", 1, "config.json", "config.json", "alice/tv"),
      CacheRec("k", "naive", 1, "", "", "") }

\* a cache with three names, two directories and two repositories at their
\* thresholds, and a repository that occurs once
CacheMany ==
    << CacheRec("k", "naive", 1, "config_20240101.json", "tvbox/config.json", "alice/tv"),
       CacheRec("k", "naive", 1, "config_20240202.json", "cfg/config.json", "alice/tv"),
       CacheRec("k", "naive", 1, "tv_20240101.json", "tvbox/tv.json", "bob/box"),
       CacheRec("k", "naive", 1, "tv_20240101.json", "cfg/config.json", "bob/box"),
       CacheRec("k", "naive", 1, "config.json", "config.json", "alice/tv"),
       CacheRec("k", "naive", 1, "config.json", "config.json", "alice/tv"),
       CacheRec("k", "naive", 1, "tv_20240101.json", "tvbox/tv.json", "bob/box"),
       CacheRec("k", "naive", 1, "", "", "carol/x") >>

\* what load_cache can return
MinedCaches == SeqsUpTo(MinedRecords, MaxRecords) \cup {CacheMany}

\* search_cache.json as load_cache can find it: up to two records, of every
\* form and age
CacheFileSpace ==
    SeqsUpTo({CacheRec("k", form, age, "", "", "") :
                 form \in {"naive", "aware", "malformed", "missing"},
                 age \in {3, 29, 30, 45}}, 2)

VARIABLES
    fpc,            \* "off", "ready", "done", "raised"
    fn,             \* the function that is called
    json_str,       \* the argument of validate_tvbox_interface
    fn_queries,     \* the list handed to queries.sort
    fn_stats,       \* the statistics table query_priority reads
    fn_valid,       \* the value validate_tvbox_interface returned
    fn_sorted,      \* the list after queries.sort
    fn_cache,       \* the argument of generate_dynamic_queries
    fn_mined,       \* the list generate_dynamic_queries returned
    fn_file,        \* the records of the file load_cache reads
    fn_loaded       \* the mapping load_cache returned

fnVars == <<fpc, fn, json_str, fn_queries, fn_stats, fn_valid, fn_sorted, fn_cache, fn_mined,
            fn_file, fn_loaded>>

FnIdle ==
    /\ fpc = "off"
    /\ fn = "none"
    /\ json_str = NoBody
    /\ fn_queries = <<>>
    /\ fn_stats = EmptyStats
    /\ fn_valid = FALSE
    /\ fn_sorted = <<>>
    /\ fn_cache = <<>>
    /\ fn_mined = <<>>
    /\ fn_file = <<>>
    /\ fn_loaded = <<>>

FnInit ==
    /\ fpc = "ready"
    /\ fn_valid = FALSE
    /\ fn_sorted = <<>>
    /\ fn_mined = <<>>
    /\ fn_loaded = <<>>
    /\ \/ /\ fn = "validate_tvbox_interface"
          /\ json_str \in Payloads
          /\ fn_queries = <<>>
          /\ fn_stats = EmptyStats
          /\ fn_cache = <<>>
          /\ fn_file = <<>>
       \/ /\ fn = "sort"
          /\ json_str = NoBody
          /\ fn_queries \in QueryLists
          /\ fn_stats \in StatsTables
          /\ fn_cache = <<>>
          /\ fn_file = <<>>
       \/ /\ fn = "generate_dynamic_queries"
          /\ json_str = NoBody
          /\ fn_queries = <<>>
          /\ fn_stats = EmptyStats
          /\ fn_cache \in MinedCaches
          /\ fn_file = <<>>
       \/ /\ fn = "load_cache"
          /\ json_str = NoBody
          /\ fn_queries = <<>>
          /\ fn_stats = EmptyStats
          /\ fn_cache = <<>>
          /\ fn_file \in CacheFileSpace

\* validate_tvbox_interface(json_str) is called (line 250)
CallValidate ==
    /\ fpc = "ready"
    /\ fn = "validate_tvbox_interface"
    /\ IF LoadsRaisesOther(json_str)
       THEN /\ fpc' = "raised"
            /\ fn_valid' = fn_valid
       ELSE /\ fpc' = "done"
            /\ fn_valid' = validate_tvbox_interface(json_str)
    /\ UNCHANGED <<fn, json_str, fn_queries, fn_stats, fn_sorted, fn_cache, fn_mined,
                   fn_file, fn_loaded>>

\* queries.sort(key=query_priority, reverse=True) is called (lines 301-305)
CallSort ==
    /\ fpc = "ready"
    /\ fn = "sort"
    /\ fn_sorted' = SortByHitRate(fn_queries, fn_stats)
    /\ fpc' = "done"
    /\ UNCHANGED <<fn, json_str, fn_queries, fn_stats, fn_valid, fn_cache, fn_mined,
                   fn_file, fn_loaded>>

\* generate_dynamic_queries(cache) is called (line 297)
CallMine ==
    /\ fpc = "ready"
    /\ fn = "generate_dynamic_queries"
    /\ fn_mined' = generate_dynamic_queries(fn_cache)
    /\ fpc' = "done"
    /\ UNCHANGED <<fn, json_str, fn_queries, fn_stats, fn_valid, fn_sorted, fn_cache,
                   fn_file, fn_loaded>>

\* load_cache() is called (line 292)
CallLoadCache ==
    /\ fpc = "ready"
    /\ fn = "load_cache"
    /\ fn_loaded' = load_cache(fn_file)
    /\ fpc' = "done"
    /\ UNCHANGED <<fn, json_str, fn_queries, fn_stats, fn_valid, fn_sorted, fn_cache,
                   fn_mined, fn_file>>

\* the pipeline is not running
PipeIdle ==
    /\ token = NoToken
    /\ cpu_count = 2
    /\ corpus = (Q1 :> <<>>)
    /\ web = (R1 :> Served(NoBody, 0))
    /\ api_script = <<>>
    /\ now = 1
    /\ ticks = 0
    /\ io_failures = 0
    /\ box = EmptyBox
    /\ cacheFile = <<>>
    /\ statsFile = EmptyStats
    /\ run = 1
    /\ pc = "off"
    /\ cache = <<>>
    /\ stats = EmptyStats
    /\ processed_urls = {}
    /\ content_hashes = {}
    /\ queries = <<>>
    /\ max_pages = 0
    /\ qi = 0
    /\ page = 0
    /\ valid_files = 0
    /\ total_files = 0
    /\ downloaded_content_hashes = {}
    /\ total_count = 0
    /\ urls_to_process = <<>>
    /\ downloaded_contents = <<>>
    /\ ci = 0
    /\ exit = "none"
    /\ fetched = <<>>
    /\ validated = <<>>
    /\ saves = <<>>
    /\ box0 = EmptyBox
    /\ requested = <<>>
    /\ stats0 = EmptyStats
    /\ statsFile0 = EmptyStats
    /\ last_search = NoSearch
    /\ returned = <<>>
    /\ running = {}
    /\ executed = <<>>
    /\ order0 = <<>>
    /\ finished_at = 0

(***************************************************************************)
(* Specifications.                                                         *)
(***************************************************************************)
(***************************************************************************)
(* scripts/check_and_clean.py: main reads output/tv_list.txt line by line  *)
(* and submits one link test per entry of raw_channels.  A link is kept as *)
(* a number.                                                               *)
(***************************************************************************)
MAX_LINKS_PER_CHANNEL == 50

\* the longest input file of the model
MaxLines == 52

\* a line 'name,link', a line without a comma, and an empty line
Pair(name, link) == [kind |-> "pair", name |-> name, link |-> link]

NoComma == [kind |-> "nocomma", name |-> "", link |-> 0]

Blank == [kind |-> "blank", name |-> "", link |-> 0]

ChannelNames == {"CCTV1", "CCTV2", "Music Radio"}

\* keyword.lower() in name.lower() for a keyword of EXCLUDE_KEYWORDS (lines 123-131)
IsExcludedName(name) == name = "Music Radio"

\* n times the line 'CCTV1,<link 1>'
Repeated(n) == [k \in 1..n |-> Pair("CCTV1", 1)]

\* n lines of the channel CCTV1 with n different links
Distinct(n) == [k \in 1..n |-> Pair("CCTV1", k)]

\* two channels, an excluded channel, a repeated line and lines that are skipped
MixedFile ==
    << Blank, NoComma, Pair("Music Radio", 1), Pair("CCTV2", 1), Pair("CCTV1", 1),
       Pair("CCTV1", 1), Pair("CCTV2", 2) >>

InputFiles ==
    {Repeated(n) : n \in 0..MaxLines} \cup {Distinct(n) : n \in 0..MaxLines}
        \cup {MixedFile, <<Pair("Music Radio", 1)>>}

VARIABLES
    clean_pc,                   \* "off", "read", "submitted", "returned"
    input_file,                 \* the lines of INPUT_TXT_FILE
    line_no,                    \* the line the for loop reads next
    unique_links_per_channel,   \* name -> the set of its links
    raw_channels,               \* the list of (name, link)
    excluded_channels_count,
    future_to_link              \* the ch_info of every submitted test, in order

cleanVars == <<clean_pc, input_file, line_no, unique_links_per_channel, raw_channels,
               excluded_channels_count, future_to_link>>

NoLinks == [name \in {} |-> {}]

CleanIdle ==
    /\ clean_pc = "off"
    /\ input_file = <<>>
    /\ line_no = 0
    /\ unique_links_per_channel = NoLinks
    /\ raw_channels = <<>>
    /\ excluded_channels_count = 0
    /\ future_to_link = <<>>

\* main up to the for loop over the lines (lines 100-113)
CleanInit ==
    /\ clean_pc = "read"
    /\ input_file \in InputFiles
    /\ line_no = 1
    /\ unique_links_per_channel = NoLinks
    /\ raw_channels = <<>>
    /\ excluded_channels_count = 0
    /\ future_to_link = <<>>

\* len(unique_links_per_channel[name]) < MAX_LINKS_PER_CHANNEL (line 140)
UnderCap(links) == Cardinality(links) < MAX_LINKS_PER_CHANNEL

\* one iteration of the for loop over the lines (lines 113-142)
CleanReadLine ==
    /\ clean_pc = "read"
    /\ line_no <= Len(input_file)
    /\ line_no' = line_no + 1
    /\ LET line == input_file[line_no]
       IN  IF line.kind # "pair"                       \* empty, or no comma
           THEN UNCHANGED <<unique_links_per_channel, raw_channels,
                            excluded_channels_count>>
           ELSE IF IsExcludedName(line.name)
           THEN /\ excluded_channels_count' = excluded_channels_count + 1
                /\ UNCHANGED <<unique_links_per_channel, raw_channels>>
           ELSE LET links == IF line.name \in DOMAIN unique_links_per_channel
                             THEN unique_links_per_channel[line.name] ELSE {}
                    kept == UnderCap(links)
                IN  /\ unique_links_per_channel' =
                          [name \in DOMAIN unique_links_per_channel \cup {line.name} |->
                              IF name = line.name
                              THEN (IF kept THEN links \cup {line.link} ELSE links)
                              ELSE unique_links_per_channel[name]]
                    /\ raw_channels' =
                          IF kept THEN Append(raw_channels, <<line.name, line.link>>)
                          ELSE raw_channels
                    /\ UNCHANGED excluded_channels_count
    /\ UNCHANGED <<clean_pc, input_file, future_to_link>>

\* reading the file raises: main reports it and returns (lines 143-145)
CleanReadFails ==
    /\ clean_pc = "read"
    /\ line_no <= Len(input_file)
    /\ clean_pc' = "returned"
    /\ UNCHANGED <<input_file, line_no, unique_links_per_channel, raw_channels,
                   excluded_channels_count, future_to_link>>

\* after the last line: main returns if raw_channels is empty, else it submits
\* check_link_validity for every entry of raw_channels (lines 148-167)
CleanSubmit ==
    /\ clean_pc = "read"
    /\ line_no > Len(input_file)
    /\ IF raw_channels = <<>>
       THEN clean_pc' = "returned" /\ future_to_link' = future_to_link
       ELSE clean_pc' = "submitted" /\ future_to_link' = raw_channels
    /\ UNCHANGED <<input_file, line_no, unique_links_per_channel, raw_channels,
                   excluded_channels_count>>

vars == <<pipeVars, mergerVars, asyncVars, fnVars, kwVars, cleanVars>>

otherThanPipe == <<mergerVars, asyncVars, fnVars, kwVars, cleanVars>>

otherThanMerger == <<pipeVars, asyncVars, fnVars, kwVars, cleanVars>>

otherThanAsync == <<pipeVars, mergerVars, fnVars, kwVars, cleanVars>>

otherThanFn == <<pipeVars, mergerVars, asyncVars, kwVars, cleanVars>>

\* the keyword loop writes newly_discovered_urls, a variable of the validation stage
otherThanKw == <<pipeVars, mergerVars, fnVars, cleanVars>>

otherThanClean == <<pipeVars, mergerVars, asyncVars, fnVars, kwVars>>

Init == PipeInit /\ MergerIdle /\ AsyncIdle /\ FnIdle /\ KwIdle /\ CleanIdle

Next ==
    \/ StartRun /\ UNCHANGED otherThanPipe
    \/ BeginQuery /\ UNCHANGED otherThanPipe
    \/ SearchPage /\ UNCHANGED otherThanPipe
    \/ LoopExit /\ UNCHANGED otherThanPipe
    \/ ProcessContent /\ UNCHANGED otherThanPipe
    \/ EndPage /\ UNCHANGED otherThanPipe
    \/ FinishQuery /\ UNCHANGED otherThanPipe
    \/ Sleep /\ UNCHANGED otherThanPipe
    \/ EndRun /\ UNCHANGED otherThanPipe
    \/ Restart /\ UNCHANGED otherThanPipe
    \/ Tick /\ UNCHANGED otherThanPipe

\* the pipeline of tvbox_search.py
Spec == Init /\ [][Next]_vars

\* the checker of tvbox_merger.py
MergerNext ==
    \/ (\E url \in MergerUrls : CallIsValidUrl(url)) /\ UNCHANGED otherThanMerger
    \/ (\E call \in inflight, outcome \in ProbeOutcomes : ProbeEnds(call, outcome))
          /\ UNCHANGED otherThanMerger
    \/ NewBatch /\ UNCHANGED otherThanMerger

MergerSpecInit == PipeIdle /\ MergerInit /\ AsyncIdle /\ FnIdle /\ KwIdle /\ CleanIdle

MergerSpec == MergerSpecInit /\ [][MergerNext]_vars

StartSomeProbe == (\E url \in DiscoveredUrls : StartProbe(url)) /\ UNCHANGED otherThanAsync

EndSomeProbe ==
    (\E url \in DiscoveredUrls, outcome \in GetOutcomes : EndProbe(url, outcome))
        /\ UNCHANGED otherThanAsync

AsyncNext ==
    \/ StartSomeProbe
    \/ EndSomeProbe
    \/ FinishValidation /\ UNCHANGED otherThanAsync

\* the validation stage of search_github_urls.py.  The event loop runs every
\* task that can run, and every GET ends (ClientTimeout), hence weak fairness.
AsyncSpecInit == PipeIdle /\ MergerIdle /\ AsyncInit /\ FnIdle /\ KwIdle /\ CleanIdle

AsyncSpec ==
    /\ AsyncSpecInit
    /\ [][AsyncNext]_vars
    /\ WF_vars(StartSomeProbe)
    /\ WF_vars(EndSomeProbe)
    /\ WF_vars(FinishValidation /\ UNCHANGED otherThanAsync)

FnNext ==
    \/ CallValidate /\ UNCHANGED otherThanFn
    \/ CallSort /\ UNCHANGED otherThanFn
    \/ CallMine /\ UNCHANGED otherThanFn
    \/ CallLoadCache /\ UNCHANGED otherThanFn

FnSpecInit == PipeIdle /\ MergerIdle /\ AsyncIdle /\ FnInit /\ KwIdle /\ CleanIdle

\* the pure functions of tvbox_search.py, called on every input of the model
FnSpec == FnSpecInit /\ [][FnNext]_vars

KwSomeRequest == (\E answer \in KwAnswers : KwRequest(answer)) /\ UNCHANGED otherThanKw

KwNext ==
    \/ KwSomeRequest
    \/ KwPagesDone /\ UNCHANGED otherThanKw
    \/ KwSleep /\ UNCHANGED otherThanKw

KwSpecInit == PipeIdle /\ MergerIdle /\ AsyncIdle /\ FnIdle /\ KwInit /\ CleanIdle

\* the keyword search loop of search_github_urls.py.  The loop is sequential
\* code: every request ends (api_timeout) and every sleep returns, hence weak
\* fairness of its steps; what the API answers is not constrained.
KwSpec ==
    /\ KwSpecInit
    /\ [][KwNext]_vars
    /\ WF_vars(KwSomeRequest)
    /\ WF_vars(KwPagesDone /\ UNCHANGED otherThanKw)
    /\ WF_vars(KwSleep /\ UNCHANGED otherThanKw)

DiscoverNext ==
    \/ KwSomeRequest
    \/ KwPagesDone /\ UNCHANGED otherThanKw
    \/ KwSleep /\ UNCHANGED otherThanKw
    \/ BeginValidation /\ UNCHANGED otherThanKw
    \/ StartSomeProbe
    \/ EndSomeProbe
    \/ FinishValidation /\ UNCHANGED otherThanAsync

DiscoverSpecInit == PipeIdle /\ MergerIdle /\ FnIdle /\ DiscoverInit /\ CleanIdle

\* auto_discover_github_urls_async as a whole: the keyword loop, then the
\* validation of what it discovered
DiscoverSpec == DiscoverSpecInit /\ [][DiscoverNext]_vars

CleanNext ==
    \/ CleanReadLine /\ UNCHANGED otherThanClean
    \/ CleanReadFails /\ UNCHANGED otherThanClean
    \/ CleanSubmit /\ UNCHANGED otherThanClean

CleanSpecInit == PipeIdle /\ MergerIdle /\ AsyncIdle /\ FnIdle /\ KwIdle /\ CleanInit

\* main of scripts/check_and_clean.py on every input file of the model
CleanSpec == CleanSpecInit /\ [][CleanNext]_vars

(***************************************************************************)
(* Properties of the pipeline (tvbox_search.py), checked under Spec.       *)
(***************************************************************************)
\* the body the loop over downloaded_contents is about to handle
AtBody == pc = "process" /\ ci <= Len(downloaded_contents)

\* the hashes of the artifacts the run found in the directory
SeedHashes == {ContentHash(box0[name]) : name \in DOMAIN box0}

\* the total this query's entry had when the query began
BaseTotal == IF qi \in 1..Len(queries) /\ query \in DOMAIN stats0
             THEN stats0[query].total ELSE 0

\* the items of the pages, for the calls that returned a response
RECURSIVE SumItems(_)
SumItems(pages) ==
    IF pages = <<>> THEN 0
    ELSE (IF returned[Len(returned) - Len(pages) + 1] = 0 THEN 0
          ELSE ApiPage(query, Head(pages)).n) + SumItems(Tail(pages))

\* C1: a fetched body whose sha256 is already in the persisted hash set or in
\* the in-run hash set is discarded: the step that handles it calls no
\* validation and saves nothing.
C1_DedupPrecedesValidation ==
    [][ ( /\ AtBody
          /\ downloaded_contents[ci] # NoBody
          /\ ContentHash(downloaded_contents[ci])
                 \in content_hashes \cup downloaded_content_hashes )
        => (validated' = validated /\ saves' = saves /\ box' = box) ]_vars

\* C1 witness: a body equal to an artifact found at start has been passed
\* over and was never handed to the validator
C1_Witness ==
    /\ pc = "process"
    /\ ci > 1
    /\ downloaded_contents[ci - 1] # NoBody
    /\ ContentHash(downloaded_contents[ci - 1]) \in SeedHashes
    /\ downloaded_contents[ci - 1] \notin Range(validated)

\* C2: when pagination stops because the end of the results was reached, the
\* items returned over the requested pages add up to the reported total; for
\* total_count = 250 the pages 1, 2 and 3 were requested.
C2_PaginationCoversTotal ==
    (pc = "finish" /\ exit = "reached_end")
        => /\ total_files - BaseTotal >= total_count
           /\ total_count = 250 => requested = <<1, 2, 3>>

\* C3: a second run over the unchanged corpus, seeded from the directory the
\* first run left, saves nothing.
C3_SecondRunSavesNothing ==
    (run >= 2 /\ pc # "init") => saves = <<>>

\* C4: no save replaces or changes a file that is already in the store.
C4_NeverOverwritten ==
    [][ \A name \in DOMAIN box : name \in DOMAIN box' /\ box'[name] = box[name] ]_vars

\* C5 (as claimed): once a page of a query has been processed, the persisted
\* statistics hold the query's counts up to that page.
C5_StatsPersistedEachPage ==
    (pc = "loop" /\ page > 1)
        => /\ query \in DOMAIN statsFile
           /\ statsFile[query] = [valid |-> valid_files, total |-> total_files]

\* C5 (amended): while a query paginates, neither the statistics table nor the
\* statistics file changes; when its loop has ended the table holds the
\* query's counts over all requested pages, every other entry is as before,
\* and the file is the table unless the write failed.
C5_StatsUpdatedAtQueryEnd ==
    /\ pc \in {"loop", "process", "finish"} => (stats = stats0 /\ statsFile = statsFile0)
    /\ pc = "sleep" =>
          /\ query \in DOMAIN stats
          /\ stats[query] = [valid |-> valid_files, total |-> total_files]
          /\ total_files = BaseTotal + SumItems(requested)
          /\ \A q \in DOMAIN stats0 : q # query => stats[q] = stats0[q]
          /\ statsFile = stats \/ statsFile = statsFile0

\* C5 witness: a query that processed two pages has ended and its counts are
\* in the file
C5_Witness ==
    /\ pc = "sleep"
    /\ Len(requested) >= 2
    /\ total_files > BaseTotal
    /\ statsFile = stats
    /\ statsFile # statsFile0

\* C6: within one run no raw URL is handed to fetch_url twice.
C6_FetchedAtMostOnce ==
    \A i, j \in 1..Len(fetched) : i # j => fetched[i] # fetched[j]

\* C6 witness: a later query returns a URL whose earlier fetch failed, and the
\* URL is not among the URLs fetched for this page
C6_Witness ==
    /\ pc = "process"
    /\ qi > 1
    /\ \E k \in 1..Len(ApiPage(query, page).urls) :
          LET raw_url == RawUrl(ApiPage(query, page).urls[k])
          IN  /\ raw_url \in Range(fetched)
              /\ raw_url \notin Range(urls_to_process)
              /\ fetch_url(raw_url) = NoBody

NoExpired(c) == \A k \in 1..Len(c) : c[k].age <= 30

\* C15: for every cache file load_cache returns no record older than 30 days,
\* the cache a run works with holds none, and no write of the cache file
\* during the run puts one into the file.
C15_NoExpiredRecord ==
    /\ [](pc = "init" => \A f \in CacheFileSpace : NoExpired(load_cache(f)))
    /\ [](pc \notin {"init", "exited", "off"} => NoExpired(cache))
    /\ [][cacheFile' # cacheFile => NoExpired(cacheFile')]_vars

\* C15 witness: the file held a record of 45 days and was written back
\* without it
C15_Witness ==
    /\ run = 1
    /\ pc = "loop"
    /\ page > 1
    /\ cacheFile = cache
    /\ Len(cacheFile) = 2
    /\ \A k \in 1..Len(cacheFile) : cacheFile[k].key # "k2"

\* the entry of the query that process_query read at its start (lines 206-207)
LoadedEntry ==
    IF query \in DOMAIN stats0 THEN stats0[query] ELSE [valid |-> 0, total |-> 0]

\* C34: every entry of the statistics, in the table and in the file, has
\* valid <= total when the loaded entries had, over any number of runs: in a
\* query total has grown by the items of every page it was answered, and
\* valid by one for each content of the query that was fetched, was no
\* duplicate and was accepted, which are never more than the items.
C34_ValidWithinTotal ==
    /\ \A q \in DOMAIN stats : stats[q].valid <= stats[q].total
    /\ \A q \in DOMAIN statsFile : statsFile[q].valid <= statsFile[q].total
    /\ pc \in {"loop", "process", "finish", "sleep"} =>
          /\ total_files = LoadedEntry.total + SumSeq(returned)
          /\ valid_files = LoadedEntry.valid + Cardinality(downloaded_content_hashes)
          /\ \A h \in downloaded_content_hashes :
                \E k \in 1..Len(fetched) :
                    /\ fetch_url(fetched[k]) # NoBody
                    /\ ContentHash(fetch_url(fetched[k])) = h
                    /\ validate_tvbox_interface(fetch_url(fetched[k]))
          /\ valid_files - LoadedEntry.valid <= total_files - LoadedEntry.total
          /\ valid_files <= total_files
    /\ pc = "sleep" => stats[query] = [valid |-> valid_files, total |-> total_files]

\* C34 witness: a query whose loaded entry was not empty has ended with one
\* more valid file, in the second run
C34_Witness ==
    /\ pc = "sleep"
    /\ run = 2
    /\ query \in DOMAIN stats0
    /\ stats0[query].total > 0
    /\ stats[query].valid = stats0[query].valid + 1
    /\ stats[query].total > stats0[query].total

\* C17: a run that has its credential never stops before its last query has
\* been executed, whatever fails while a candidate, a page or a query is
\* handled.
C17_FailuresContained == ~TokenMissing(token) => pc \notin {"exited", "crashed"}

\* C18: a search_github call issues at most 3 requests; the wait after the
\* k-th request answered 403 is 60 * k seconds; the call gives up exactly when
\* none of 3 requests was answered, it then returns ([], 0), and that ends the
\* pagination of the current query only: the run goes on.
C18_SearchRetryBudget ==
    /\ last_search.requests <= 3
    /\ Len(last_search.answers) = last_search.requests
    /\ \A k \in 1..Len(last_search.answers) :
          last_search.answers[k] = Status(403) =>
              (k <= Len(last_search.waits) /\ last_search.waits[k] = 60 * k)
    /\ last_search.exhausted <=>
          /\ last_search.requests = 3
          /\ \A k \in 1..3 : last_search.answers[k] # Status(200)
    /\ last_search.exhausted =>
          /\ returned # <<>> => (Last(returned) = 0 /\ total_count = 0)
          /\ pc \in {"finish", "sleep", "begin_query", "end_run", "done", "init"}
          /\ pc = "finish" => exit = "no_items"

\* C18 witness: three requests of one call were answered 403, the client
\* waited 60, 120 and 180 seconds, and the next query is about to begin
C18_Witness ==
    /\ pc = "begin_query"
    /\ qi >= 2
    /\ last_search.exhausted
    /\ last_search.answers = <<Status(403), Status(403), Status(403)>>
    /\ last_search.waits = <<60, 120, 180>>
    /\ now >= 1 + 360 + 20

\* C21: process_query requests the pages 1, 2, ... in increasing order, at most
\* max_pages of them, and none after a page that returned zero items.
C21_PageCeiling ==
    /\ Len(requested) <= max_pages
    /\ \A k \in 1..Len(requested) : requested[k] = k
    /\ \A k \in 1..Len(returned) : returned[k] = 0 => k = Len(returned)

\* C21 witness: the query stopped at the ceiling of 5 pages although the API
\* had a sixth, non-empty page
C21_Witness ==
    /\ pc = "finish"
    /\ exit = "max_pages"
    /\ max_pages = 5
    /\ requested = <<1, 2, 3, 4, 5>>
    /\ ApiPage(query, 6).n > 0

\* C22: for every URL handed to fetch_url, the call makes min(fails + 1, 3)
\* attempts, sleeps 1, 2, ... seconds between consecutive attempts and not
\* after the last one, returns the body of the first attempt that succeeds and
\* None when three attempts fail; a None is never validated or saved.
C22_FetchRetryBudget ==
    /\ Len(downloaded_contents) = Len(urls_to_process)
    /\ \A k \in 1..Len(urls_to_process) :
          LET url == urls_to_process[k]
              call == FetchAttempts(url, 0)
              failing == web[url].fails
          IN  /\ call.attempts <= 3
              /\ call.attempts = (IF failing < 3 THEN failing + 1 ELSE 3)
              /\ Len(call.sleeps) = call.attempts - 1
              /\ \A j \in 1..Len(call.sleeps) : call.sleeps[j] = 2 ^ (j - 1)
              /\ call.body = (IF failing < 3 THEN web[url].body ELSE NoBody)
              /\ downloaded_contents[k] = call.body
    /\ \A k \in 1..Len(validated) : validated[k] # NoBody
    /\ \A k \in 1..Len(saves) : saves[k].content # NoBody

\* C22 witness: the first candidate of a page failed three times, the second
\* one succeeded at its third attempt and has been validated and saved
C22_Witness ==
    /\ pc = "process"
    /\ Len(urls_to_process) >= 2
    /\ ci > 2
    /\ web[urls_to_process[1]].fails = 3
    /\ downloaded_contents[1] = NoBody
    /\ web[urls_to_process[2]].fails = 2
    /\ \E k \in 1..Len(saves) : saves[k].content = downloaded_contents[2]

\* C25: a search request that is not the first of its query is issued only
\* when every candidate of the page before has been fetched and handled by the
\* content loop; while bodies of a page are pending no page is requested.
C25_PagesSequential ==
    /\ []((pc = "loop" /\ requested # <<>>) =>
              /\ Len(downloaded_contents) = Len(urls_to_process)
              /\ ci = Len(downloaded_contents) + 1)
    /\ [][Len(requested') > Len(requested) =>
              /\ pc = "loop"
              /\ requested' = Append(requested, Len(requested) + 1)
              /\ (requested # <<>> => ci = Len(downloaded_contents) + 1)]_vars

\* C25 witness: page 2 was requested after the two candidates of page 1 had
\* been handled
C25_Witness ==
    /\ pc = "process"
    /\ requested = <<1, 2>>
    /\ returned[1] > 0
    /\ Len(validated) >= 2

\* C23: at most one process_query is executing at any moment, and the shared
\* processed-URL set, content-hash set and statistics table change during the
\* executor loop only in steps of the one query that is executing.
C23_SingleWriter ==
    /\ [](Cardinality(running) <= 1)
    /\ []((pc \in {"loop", "process", "finish"}) => running = {qi})
    /\ [][(pc # "init" /\ (processed_urls' # processed_urls
                            \/ content_hashes' # content_hashes
                            \/ stats' # stats))
            => (running = {qi} /\ running' \subseteq {qi})]_vars

\* C23 witness: the pool has at least two threads, the second query is
\* executing and has saved an artifact, and it is the only one executing
C23_Witness ==
    /\ Min(Len(queries), cpu_count) >= 2
    /\ pc = "process"
    /\ qi = 2
    /\ running = {2}
    /\ valid_files > 0
    /\ saves # <<>>

\* C24: the queries handed to process_query are, in order, the first queries
\* of the list as it was sorted before the executor loop, and the list is not
\* changed while the loop runs.
C24_OrderComputedOnce ==
    /\ [](Len(executed) <= Len(order0))
    /\ [](executed = SubSeq(order0, 1, Len(executed)))
    /\ [][pc # "init" => queries' = queries]_vars

\* C24 witness: the statistics written by the queries that ran would sort the
\* list differently, and the fifth query that ran is the fifth of the list
C24_Witness ==
    /\ Len(executed) >= 5
    /\ pc = "loop"
    /\ queries = order0
    /\ SortByHitRate(order0, stats) # order0
    /\ executed[5] = order0[5]

\* C26: every search request of a query that is not the first of its run is
\* issued when no other query is executing and at least 20 seconds after the
\* query before it returned.
C26_PauseBetweenQueries ==
    [][(Len(requested') > Len(requested) /\ Len(executed) > 1)
          => /\ running = {qi}
             /\ now >= finished_at + 20]_vars

\* C26 witness: the second query of a run has issued its first search request,
\* 20 seconds after the first query returned
C26_Witness ==
    /\ Len(executed) = 2
    /\ requested = <<1>>
    /\ last_search.waits = <<>>
    /\ pc = "process"
    /\ ci = 1
    /\ ticks = 0
    /\ now = finished_at + 20

\* C27: with the credential unset or empty nothing is loaded, requested,
\* fetched or written, the process ends in sys.exit(1), and it stays ended.
C27_MissingTokenIsFatal ==
    /\ []((~token.set \/ token.value = "") =>
             /\ pc \in {"init", "exited"}
             /\ cache = <<>> /\ stats = EmptyStats /\ content_hashes = {}
             /\ requested = <<>> /\ fetched = <<>> /\ saves = <<>> /\ executed = <<>>
             /\ last_search = NoSearch)
    /\ [][(~token.set \/ token.value = "") => UNCHANGED <<fileVars, api_script, now>>]_vars
    /\ [][pc = "init" /\ (~token.set \/ token.value = "") => pc' \in {"init", "exited"}]_vars
    /\ [][pc = "exited" => pc' = "exited"]_vars

\* C27 witness: BOT is set to the empty string, the process has exited and
\* the statistics file and the cache file on disk were not read
C27_Witness ==
    /\ token.set
    /\ token.value = ""
    /\ pc = "exited"
    /\ statsFile # EmptyStats
    /\ cacheFile # <<>>

\* a step in which save_cache or save_query_stats failed
WriteFailed ==
    /\ io_failures' = io_failures + 1
    /\ \/ pc = "process" /\ ci > Len(downloaded_contents)
       \/ pc \in {"finish", "end_run"}

\* C28: a step in which the cache or the statistics could not be written does
\* not end the process, leaves the file as it was, leaves the cache in memory
\* unchanged and the statistics in memory as the step without the failure
\* leaves them, and goes on to where that step goes.
C28_WriteFailureContained ==
    [][WriteFailed =>
          /\ pc' # "crashed"
          /\ cache' = cache
          /\ UNCHANGED <<cacheFile, statsFile>>
          /\ pc = "process" =>
                (stats' = stats /\ page' = page + 1 /\ pc' \in {"loop", "finish"})
          /\ pc = "finish" =>
                (stats' = SetStats(stats, query, valid_files, total_files) /\ pc' = "sleep")
          /\ pc = "end_run" => (stats' = stats /\ pc' = "done")]_vars

\* C28 witness: the statistics of the first query could not be written: the
\* file holds its counts of the run before, the table in memory its new
\* counts, and the second query is running
C28_Witness ==
    /\ io_failures = 1
    /\ pc = "process"
    /\ qi = 2
    /\ queries[1] \in DOMAIN stats
    /\ queries[1] \in DOMAIN statsFile
    /\ stats[queries[1]] # statsFile[queries[1]]

(***************************************************************************)
(* Properties of the checker (tvbox_merger.py), checked under MergerSpec.  *)
(***************************************************************************)
\* C8: a probe answered with a 2xx-3xx status (301 among them) makes the call
\* return true, 404 makes it return false, and a timeout makes it return
\* false.
C8_Reachable2xx3xx ==
    last.probed =>
        /\ (last.outcome.kind = "status" /\ last.outcome.code >= 200
              /\ last.outcome.code < 400) => last.result
        /\ (last.outcome.kind = "status" /\ last.outcome.code = 404) => ~last.result
        /\ last.outcome.kind = "TimeoutError" => ~last.result

HasProxyPrefix(url) == \E k \in 1..Len(Proxies) : StartsWith(url, Proxies[k])

\* C35: strip_proxy is idempotent: the normalized URL of every call, which is
\* the cache key, the URL whose host is looked up in the exclusion list and
\* the URL probed, is a fixed point of strip_proxy and starts with no mirror
\* prefix.
C35_StripProxyIdempotent ==
    /\ \A call \in inflight :
          StripProxy(call.target) = call.target /\ ~HasProxyPrefix(call.target)
    /\ \A key \in DOMAIN URL_CACHE : StripProxy(key) = key /\ ~HasProxyPrefix(key)
    /\ last # NoCall =>
          /\ last.target = StripProxy(last.raw)
          /\ StripProxy(last.target) = last.target
          /\ ~HasProxyPrefix(last.target)

\* C11: over a batch of calls, the number of probes in flight stays within a
\* fixed permit count that is smaller than the batch.
C11_BatchProbesBounded == Cardinality(inflight) <= MaxPermits

\* C12: no probe is issued for a normalized URL that is already being probed
\* or whose result is in the cache, and a call answered from the cache returns
\* the cached value.
C12_OneProbePerNormalizedUrl ==
    /\ \A c1, c2 \in inflight : c1.target = c2.target => c1 = c2
    /\ \A call \in inflight : call.target \notin DOMAIN URL_CACHE
    /\ (last.hit /\ last.target \in DOMAIN URL_CACHE) => last.result = URL_CACHE[last.target]

\* C13: under every interleaving of calls the cache holds at most
\* MAX_CACHE_SIZE + 1 entries.
C13_CacheWithinCeiling == CacheLen <= MAX_CACHE_SIZE + 1

(***************************************************************************)
(* Properties of the validation stage (search_github_urls.py), checked     *)
(* under AsyncSpec.                                                        *)
(***************************************************************************)
InFlight == Cardinality({u \in newly_discovered_urls : task[u] = "probing"})

\* C10: never more than max_workers probes are in flight, whatever the size of
\* the batch, and every URL of the batch is eventually probed exactly once.
C10_BoundedProbes ==
    /\ [](InFlight <= max_workers /\ \A u \in newly_discovered_urls : probes[u] <= 1)
    /\ <>(apc = "done" /\ \A u \in newly_discovered_urls : probes[u] = 1)

\* C10 witness: a batch larger than the permit count, all permits taken and a
\* task waiting
C10_Witness ==
    /\ apc = "validate"
    /\ Cardinality(newly_discovered_urls) > max_workers
    /\ InFlight = max_workers
    /\ \E u \in newly_discovered_urls : task[u] = "waiting"

(***************************************************************************)
(* Properties of the pure functions (tvbox_search.py), checked under       *)
(* FnSpec.                                                                 *)
(***************************************************************************)
\* the member is a list with an object entry that carries one of the fields
HasEntryWith(member, fields) ==
    /\ member.t = "list"
    /\ \E k \in 1..Len(member.items) : member.items[k] \in fields

\* C16: a payload is accepted if and only if it is a JSON object and 'sites'
\* is a list with an object entry carrying 'api' or 'url', or 'lives' is a
\* list with an object entry carrying 'channels', or 'spider' is a non-blank
\* string; {"sites": [{"key": "k"}]} is rejected and
\* {"sites": [{"key": "k", "api": "http://x"}]} is accepted.
C16_AcceptsIffSignal ==
    (fpc = "done" /\ fn = "validate_tvbox_interface") =>
        /\ fn_valid <=>
              /\ json_str.kind = "object"
              /\ \/ HasEntryWith(json_str.sites, {"dict_api", "dict_url"})
                 \/ HasEntryWith(json_str.lives, {"dict_channels"})
                 \/ (json_str.spider.t = "str" /\ json_str.spider.s \notin {"", " "})
        /\ json_str = Obj("x", ListOf(<<"dict_key">>), Absent, Absent) => ~fn_valid
        /\ json_str = Obj("x", ListOf(<<"dict_api">>), Absent, Absent) => fn_valid

\* C16 witness: the payload with a 'sites' list whose only entry has no 'api'
\* and no 'url' was rejected
C16_Witness ==
    /\ fpc = "done"
    /\ fn = "validate_tvbox_interface"
    /\ json_str = Obj("x", ListOf(<<"dict_key">>), Absent, Absent)
    /\ ~fn_valid

\* C31: validate_tvbox_interface never raises for a string input: a text that
\* is not valid JSON, JSON that is not an object and an object whose 'sites',
\* 'lives' or 'spider' member has an unexpected type all yield False.
C31_ValidateNeverRaises ==
    fn = "validate_tvbox_interface" =>
        /\ fpc # "raised"
        /\ (fpc = "done" /\ json_str.kind # "object") => ~fn_valid
        /\ (/\ fpc = "done"
            /\ json_str.kind = "object"
            /\ ~HasEntryWith(json_str.sites, {"dict_api", "dict_url"})
            /\ ~HasEntryWith(json_str.lives, {"dict_channels"})
            /\ json_str.spider.t # "str") => ~fn_valid

\* valid and max(total, 1) of a query, <<0, 1>> for a query without statistics
HitRate(q) ==
    IF q \in DOMAIN fn_stats
    THEN <<fn_stats[q].valid, IF fn_stats[q].total >= 1 THEN fn_stats[q].total ELSE 1>>
    ELSE <<0, 1>>

Higher(a, b) == a[1] * b[2] > b[1] * a[2]

SameRate(a, b) == a[1] * b[2] = b[1] * a[2]

\* C14: the sorted list holds the queries of the original list in descending
\* order of hit-rate valid / max(total, 1), a query without statistics at 0;
\* the queries of one hit-rate keep their original order; statistics
\* A: 3/10, B: 5/10, C: 5/20 with A before B before C give B, A, C (a query
\* that is in the list twice stands at both places).
C14_StableHitRateOrder ==
    (fpc = "done" /\ fn = "sort") =>
        /\ Len(fn_sorted) = Len(fn_queries)
        /\ \A i, j \in 1..Len(fn_sorted) :
              i < j => ~Higher(HitRate(fn_sorted[j]), HitRate(fn_sorted[i]))
        /\ \A q \in Range(fn_queries) :
              SelectSeq(fn_sorted, LAMBDA x : SameRate(HitRate(x), HitRate(q)))
                = SelectSeq(fn_queries, LAMBDA x : SameRate(HitRate(x), HitRate(q)))
        /\ ( fn_stats = (BaselineQueries[1] :> [valid |-> 3, total |-> 10])
                     @@ (BaselineQueries[4] :> [valid |-> 5, total |-> 10])
                     @@ (BaselineQueries[6] :> [valid |-> 5, total |-> 20]) )
              => FirstOccurrences(SelectSeq(fn_sorted, LAMBDA x : x \in DOMAIN fn_stats))
                   = <<BaselineQueries[4], BaselineQueries[1], BaselineQueries[6]>>

\* C14 witness: the example table was sorted, with a mined query equal to a
\* baseline query in the list, and the order of the list changed
C14_Witness ==
    /\ fpc = "done"
    /\ fn = "sort"
    /\ DOMAIN fn_stats = {BaselineQueries[1], BaselineQueries[4], BaselineQueries[6]}
    /\ fn_stats[BaselineQueries[1]] = [valid |-> 3, total |-> 10]
    /\ fn_stats[BaselineQueries[4]] = [valid |-> 5, total |-> 10]
    /\ fn_stats[BaselineQueries[6]] = [valid |-> 5, total |-> 20]
    /\ Len(fn_queries) > Len(BaselineQueries)
    /\ fn_sorted # fn_queries
    /\ fn_sorted[1] = BaselineQueries[4]

(***************************************************************************)
(* Properties of the keyword search loop (search_github_urls.py), checked  *)
(* under KwSpec.                                                           *)
(***************************************************************************)
\* the last answer for the current page was 403
Forbidden == kw_last.kind = "status" /\ kw_last.code = 403

\* C19: after a 403 the client sleeps (until the reset time plus the margin,
\* or the fallback) and requests the same page again, and it does not go on
\* doing so for ever: a page that is answered 403 every time is given up.
C19_ForbiddenRetriesBounded ==
    /\ [](Forbidden => (kw_pc \in {"sleep", "request"} /\ kw_slept + wait_seconds >= 5))
    /\ []<>(~Forbidden)

\* the last answer was a successful response whose remaining quota (0 when the
\* header is absent) is at or below the threshold of 3
LowQuotaAnswer ==
    /\ kw_last.kind = "status"
    /\ kw_last.code = 200
    /\ (IF kw_last.remaining.h = "absent" THEN 0 ELSE kw_last.remaining.v) <= 3

\* C20: after a successful response with remaining <= threshold the client
\* is asleep or has slept max(0, reset - now) + 5 seconds, at least 5, before
\* it can issue the next request.
C20_QuotaSleepBeforeNextRequest ==
    LowQuotaAnswer =>
        LET ahead == IF kw_last.reset.h = "absent" THEN -1 ELSE kw_last.reset.v
            due == (IF ahead > 0 THEN ahead ELSE 0) + 5
        IN  /\ kw_pc \in {"sleep", "request"}
            /\ kw_pc = "sleep" => (wait_seconds = due /\ kw_slept = 0)
            /\ kw_pc = "request" => (kw_slept = due /\ kw_slept >= 5)

\* C20 witness: a response with remaining = 3 and a reset time in the past
\* was received, and the client has slept the 5 seconds of the margin
C20_Witness ==
    /\ LowQuotaAnswer
    /\ kw_last.remaining = HeaderInt(3)
    /\ kw_last.reset = HeaderInt(-10)
    /\ kw_pc = "request"
    /\ kw_slept = 5

\* C33: a record of the cache file whose last_modified lies within the last
\* 30 days is in the mapping load_cache returns, whatever the other records
\* of the file hold (expired, with a 'Z' or an offset, last_modified missing
\* or malformed).
C33_FreshRecordSurvives ==
    (fpc = "done" /\ fn = "load_cache") =>
        \A k \in 1..Len(fn_file) :
            (fn_file[k].form \in {"naive", "aware"} /\ fn_file[k].age < 30) =>
                \E m \in 1..Len(fn_loaded) : fn_loaded[m] = fn_file[k]

\* C32: in the keyword loop every successful non-empty search response has
\* its items screened and advances the page index, whatever its quota headers
\* say (remaining quota missing, or at or below the threshold), so that the
\* loop of every keyword ends.
C32_EveryPageAdvances ==
    /\ [][(/\ kw_pc = "request"
           /\ kw_last'.kind = "status"
           /\ kw_last'.code = 200
           /\ kw_last'.items # <<>>)
          => /\ kw_page' = kw_page + 1
             /\ PageDiscovered(kw_last'.items, existing_urls, newly_discovered_urls)
                    \subseteq newly_discovered_urls']_vars
    /\ <>(kw_pc = "done")

\* the records of the cache whose name, cut at its first '_' and given the
\* suffix '.json', is `name`
NameCount(name) ==
    Cardinality({k \in 1..Len(fn_cache) : StemJson(fn_cache[k].file_name) = name})

\* the records of the cache whose path has the parent `dir`
DirCount(dir) == Cardinality({k \in 1..Len(fn_cache) : DirPath(fn_cache[k].path) = dir})

RepoCount(repo) == Cardinality({k \in 1..Len(fn_cache) : fn_cache[k].repo = repo})

ScreenedIn ==
    { "https://raw.githubusercontent.com/a/iptv/main/1.m3u8",
      "https://raw.githubusercontent.com/b/tv/main/3.m3u8" }

SubmittedFor(name) ==
    Cardinality({k \in 1..Len(future_to_link) : future_to_link[k][1] = name})

\* C36: for every channel name at most MAX_LINKS_PER_CHANNEL (50) link tests
\* are submitted to the worker pool, whatever the input file holds, a file
\* that repeats one 'channel,link' line many times included.
C36_SubmitsWithinCap == \A name \in ChannelNames : SubmittedFor(name) <= MAX_LINKS_PER_CHANNEL

====
